---- MODULE Spec2Model ----
(***************************************************************************)
(* Storage manager of the secondary-index engine: snapshot lifecycle,      *)
(* waiter registry and rollback engine, modelled from                      *)
(* src/unnamed/part_001 (package indexer, storage_manager).                *)
(*                                                                         *)
(* Threads: "main" is storageMgr.run (one supervisor command at a time);   *)
(* worker threads are the createSnapshotWorker goroutines spawned by       *)
(* handleCreateSnapshot; "lsn" is a listenSnapshotReqs goroutine; drain    *)
(* goroutines are the closures spawned by handleRollback.  One step of a   *)
(* thread is one lock-protected section (or one lock-free read of a        *)
(* published map pointer) of the code.                                     *)
(***************************************************************************)
EXTENDS Integers, Sequences, FiniteSets, TLC

\* ------------------------------------------------------------------ bounds
NumVbs == 2
MaxSeq == 2
NumInsts == 2
MaxCmds == 4
MaxLiveInsts == 1
MaxRbCmds == 2
MaxReqs == 1
MaxWorkers == 2
MaxSpecWorkers == 1
MaxFlushCmds == 3
MaxInfos == 2
MaxMergeCmds == 4
NumSecKeys == 2
MaxKeyVal == 1
KeyVals == 0..MaxKeyVal
MaxScans == 2
MAX_GETSEQS_RETRIES == 10
NumGroupKeys == 3
MaxGroupKeys == 2
MaxWaiters == 4
MaxWalkCmds == 6
MaxAbortCmds == 3
MaxMapCmds == 4
MaxLockCmds == 3
MaxPrimaryScans == 3
MaxDocId == 6

Vbs == 1..NumVbs
Insts == 1..NumInsts
Partns == 1..NumInsts
Workers == 1..MaxWorkers
ReqIds == 1..MaxReqs

\* ------------------------------------------------------------- timestamps
\* Timestamp(tsVbuuid.Seqnos): one sequence number per vbucket.
TsSet == [Vbs -> 0..MaxSeq]
ZeroTs == [v \in Vbs |-> 0]
NoTs == <<>>

\* Timestamp.GreaterThan: no slot lower, at least one slot strictly higher.
GreaterThan(a, b) ==
    /\ \A v \in Vbs : a[v] >= b[v]
    /\ \E v \in Vbs : a[v] > b[v]

\* TsVbuuid.AsRecentTs: false for a nil operand, else seqno-wise >=.
AsRecentTs(a, b) ==
    /\ a # NoTs
    /\ b # NoTs
    /\ \A v \in Vbs : a[v] >= b[v]

\* TsVbuuid.HasZeroSeqNum
HasZeroSeqNum(ts) == \E v \in Vbs : ts[v] = 0

\* tsVbuuid.Vbuuids: one vbuuid per vbucket; 0 in a new TsVbuuid, and every
\* vbucket of the keyspace is on its first branch, whose vbuuid is 1
ZeroVbuuids == [v \in Vbs |-> 0]
FlushVbuuids == [v \in Vbs |-> 1]

\* bitwise exclusive or of two naturals
RECURSIVE Xor(_, _)
Xor(a, b) ==
    IF a = 0 THEN b
    ELSE IF b = 0 THEN a
    ELSE ((a + b) % 2) + 2 * Xor(a \div 2, b \div 2)

\* common.HashVbuuid: the CRC of the vbuuid vector (start from all ones,
\* shift every vbuuid in, complement), scaled down to four bits and one bit
\* per vbuuid
CrcPoly == 12
CrcOnes == 15
RECURSIVE CrcUpdate(_, _, _)
CrcUpdate(crc, vbuuids, v) ==
    IF v > NumVbs THEN crc
    ELSE LET c == Xor(crc, vbuuids[v])
         IN  CrcUpdate(IF c % 2 = 1 THEN Xor(c \div 2, CrcPoly) ELSE c \div 2,
                       vbuuids, v + 1)

HashVbuuid(vbuuids) == Xor(CrcUpdate(CrcOnes, vbuuids, 1), CrcOnes)

\* ------------------------------------------------------- index snapshots
\* An IndexSnapshot is [instId, ts, vbuuids, crc64, partns]; ts, vbuuids and
\* crc64 are the Seqnos, Vbuuids and Crc64 of its TsVbuuid; partns maps a
\* partition id to the id of the storage Snapshot of its (single) slice.
\* NoSnap is Go's nil.
NoPartns == [p \in {} |-> 0]
NoSnap == [instId |-> 0, ts |-> <<>>, vbuuids |-> <<>>, crc64 |-> 0, partns |-> NoPartns]

\* the epoch snapshot built by initSnapshotContainerForInst / addNilSnapshot
\* on common.NewTsVbuuid: no seqno, no vbuuid, a zero Crc64
NilSnapshot(inst) ==
    [instId |-> inst, ts |-> ZeroTs, vbuuids |-> ZeroVbuuids, crc64 |-> 0,
     partns |-> NoPartns]

SnapIdsOf(is) == IF is = NoSnap THEN {} ELSE {is.partns[p] : p \in DOMAIN is.partns}

\* CloneIndexSnapshot: Open() every slice snapshot, return the same object.
CloneIndexSnapshot(snaps, is) ==
    [k \in DOMAIN snaps |->
        IF k \in SnapIdsOf(is) THEN [snaps[k] EXCEPT !.rc = @ + 1] ELSE snaps[k]]

\* DestroyIndexSnapshot: Close() every slice snapshot once.
DestroyIndexSnapshot(snaps, is) ==
    [k \in DOMAIN snaps |->
        IF k \in SnapIdsOf(is) THEN [snaps[k] EXCEPT !.rc = @ - 1] ELSE snaps[k]]

\* every slice snapshot of is has a positive refcount
Live(snaps, is) == \A k \in SnapIdsOf(is) : snaps[k].rc >= 1

\* isSnapshotConsistent(snap, cons, reqTs)
isSnapshotConsistent(is, cons, reqTs) ==
    \/ cons = "any"
    \/ /\ cons = "query"
       /\ is # NoSnap
       /\ AsRecentTs(is.ts, reqTs)

\* ------------------------------------------------------------------ state
VARIABLES
    indexInstMap,      \* published IndexInstMap: instance -> index state
    indexPartnMap,     \* published IndexPartnMap: instance -> partition ids
    indexSnapMap,      \* published IndexSnapMap: instance -> container id (0: none)
    snapContainers,    \* IndexSnapshotContainer objects: [snap, deleted]
    waitersMap,        \* published SnapshotWaitersMap: instance -> container id
    waiterContainers,  \* SnapshotWaitersContainer objects: list of waiters
    snapshots,         \* storage Snapshot objects: [rc, ts]
    slices,            \* Slice objects: [infos, dirty, lastRollbackTs]
    thr,               \* thread -> program position and locals
    muSnap,            \* holder of storageMgr.muSnap (NoThread: free)
    drains,            \* rollback waiter-drain goroutines not yet run
    snapshotReqCh,     \* snapshot requests forwarded to the listener
    replies,           \* request id -> what was sent on its reply channel
    held,              \* delivered clones the consumer has not destroyed
    supvRespch,        \* the message sent last to the supervisor
    expired,           \* requests whose deadline has passed
    budget,            \* supervisor commands the run still accepts
    hist               \* observations used to state the properties

vars == <<indexInstMap, indexPartnMap, indexSnapMap, snapContainers, waitersMap,
          waiterContainers, snapshots, slices, thr, muSnap, drains, snapshotReqCh,
          replies, held, supvRespch, expired, budget, hist>>

MainT == 0
LsnT == MaxWorkers + 1
Threads == {MainT} \cup Workers \cup {LsnT}
NoThread == 0 - 1

Idle == [pc |-> "idle"]

SliceIds == Insts \X Partns
NoSlice == [infos |-> <<>>, dirty |-> FALSE, lastRollbackTs |-> NoTs]

\* instances an IndexInst is found for in the instance map
Found(instMap, inst) == instMap[inst] \in {"ACTIVE", "DELETED"}

\* streamKeyspaceIdInstList[stream][keyspace] as last computed by
\* handleUpdateIndexInstMap: every instance of the map, whatever its state
InstIdList(instMap) == {i \in Insts : Found(instMap, i)}

\* a send on a channel whose receiver takes every message as it comes: the
\* channel shows the message sent last
Send(ch, m) == <<m>>

\* bag of index snapshots
BagAdd(b, x) ==
    IF x \in DOMAIN b THEN [b EXCEPT ![x] = @ + 1]
    ELSE [y \in DOMAIN b \cup {x} |-> IF y = x THEN 1 ELSE b[y]]
BagDel(b, x) ==
    IF b[x] > 1 THEN [b EXCEPT ![x] = @ - 1]
    ELSE [y \in DOMAIN b \ {x} |-> b[y]]
\* a clone handed to a consumer; an empty snapshot holds no reference
Deliver(b, is) == IF SnapIdsOf(is) = {} THEN b ELSE BagAdd(b, is)

\* the observation of the latest rollback: none yet
NoRb == [ts |-> NoTs, ineligible |-> FALSE, toZero |-> FALSE, matching |-> {}, zeroed |-> {},
         rolled |-> {}, err |-> FALSE, done |-> FALSE, sent |-> NoTs,
         sid |-> 0, failed |-> {}, last |-> <<>>, msgs |-> 0, reply |-> <<>>,
         attempts |-> 0, slept |-> 0, fetched |-> FALSE, used |-> {}]

\* what is recorded of the last merge: the command, the state it found
\* (whether the target had a container, whether a flush was running, the two
\* snapshots) and the replies sent on supvCmdch
NoMerge == [src |-> 0, tgt |-> 0, partitions |-> {}, hadC |-> FALSE, flushing |-> FALSE,
            source |-> NoSnap, target |-> NoSnap, cmdReplies |-> <<>>, seq |-> 0,
            snaps |-> <<>>, held |-> <<>>]

\* what is recorded of the last prune: the command, the snapshot and the
\* refcounts it found, whether its MsgSuccess is still to be sent
NoPrune == [inst |-> 0, partitions |-> {}, hadC |-> FALSE, flushing |-> FALSE,
            snap |-> NoSnap, snaps |-> <<>>, pending |-> FALSE, seq |-> 0]

InitHist ==
    [deadClone |-> {}, missed |-> {}, taken |-> {}, rbQueued |-> {},
     lateNotify |-> {}, rollbacks |-> 0, rb |-> NoRb, gone |-> {},
     buildFailed |-> {}, merge |-> NoMerge, prune |-> NoPrune,
     numSnapshotWaiters |-> [i \in Insts |-> 0], lockedSends |-> {},
     inPlace |-> {}]

\* a channel send made while the sender holds the locks
LockedSend(locks, ch) == [locks |-> locks, ch |-> ch]

\* NewStorageManager: empty maps, no snapshot, no waiter; partnMap is the
\* partition map the indexer is configured with, sl the slices as found on
\* disk, cmds the commands to come
NewStorageManager(partnMap, sl, cmds) ==
    /\ indexInstMap = [i \in Insts |-> "NONE"]
    /\ indexPartnMap = partnMap
    /\ indexSnapMap = [i \in Insts |-> 0]
    /\ snapContainers = <<>>
    /\ waitersMap = [i \in Insts |-> 0]
    /\ waiterContainers = <<>>
    /\ snapshots = <<>>
    /\ slices = sl
    /\ thr = [t \in Threads |-> Idle]
    /\ muSnap = NoThread
    /\ drains = 0
    /\ snapshotReqCh = <<>>
    /\ replies = [r \in ReqIds |-> <<>>]
    /\ held = [x \in {} |-> 0]
    /\ supvRespch = <<>>
    /\ expired = {}
    /\ budget = cmds
    /\ hist = InitHist

\* every instance has one partition, nothing is on disk
Init == NewStorageManager([i \in Insts |-> {i}], [s \in SliceIds |-> NoSlice], MaxCmds)

\* --------------------------------------------------------- Slice capability
Min(a, b) == IF a < b THEN a ELSE b

\* Slice.NewSnapshot(ts, commit): a committed snapshot joins the slice's
\* snapshot infos (newest first, MaxInfos retained) and cleans the slice
NewSnapshot(sl, ts, oso, commit) ==
    IF commit
    THEN [sl EXCEPT !.infos = SubSeq(<<[ts |-> ts, oso |-> oso]>> \o @, 1,
                                     Min(Len(@) + 1, MaxInfos)),
                    !.dirty = FALSE]
    ELSE sl

\* ------------------------------------------------ return from a publication
\* what a thread does when updateSnapMapAndNotify returns: a worker runs the
\* deferred wg.Done() of createSnapshotForIndex, the deferred
\* DestroyIndexSnapshot(lastIndexSnap) being still to run; the main loop
\* acknowledges the command
Ret(self) ==
    IF self \in Workers
    THEN [thr[self] EXCEPT !.pc = "deferred", !.cur = 0, !.is = NoSnap,
                           !.snapC = 0, !.wc = 0, !.seen = {}, !.late = FALSE]
    ELSE [pc |-> "MsgSuccess"]

\* ------------------------------------------------------ handleCreateSnapshot
SnapTypes == {"NO_SNAP", "NO_SNAP_OSO", "INMEM_SNAP", "DISK_SNAP", "DISK_SNAP_OSO",
              "FORCE_COMMIT", "FORCE_COMMIT_MERGE"}

\* the worker goroutine a flush gets, out of the pool the run is bounded to
FreeWorker(pool) ==
    CHOOSE w \in pool : thr[w].pc = "idle" /\ \A v \in pool : thr[v].pc = "idle" => w <= v

\* FlushDone{ts, snapType, aborted, allStreamBeginsSeen}: spawn flushDone for
\* NO_SNAP types, else createSnapshotWorker with the maps read under muSnap
handleCreateSnapshot(ts, stype, aborted, hasAllSB, pool) ==
    /\ thr[MainT].pc = "idle"
    /\ budget > 0
    /\ muSnap = NoThread
    /\ \E w \in pool : thr[w].pc = "idle"
    /\ budget' = budget - 1
    /\ thr' = [thr EXCEPT ![FreeWorker(pool)] =
            [pc |-> IF stype \in {"NO_SNAP", "NO_SNAP_OSO"} THEN "flushDone" ELSE "next",
             todo |-> InstIdList(indexInstMap), ts |-> ts, stype |-> stype,
             aborted |-> aborted, hasAllSB |-> hasAllSB,
             snapMap |-> indexSnapMap, instMap |-> indexInstMap,
             cur |-> 0, last |-> NoSnap, is |-> NoSnap, snapC |-> 0, wc |-> 0,
             seen |-> {}, late |-> FALSE, seq |-> budget,
             vbuuids |-> FlushVbuuids, crc64 |-> HashVbuuid(FlushVbuuids),
             isDirtyCalls |-> {}]]
    /\ UNCHANGED <<indexInstMap, indexPartnMap, indexSnapMap, snapContainers,
                   waitersMap, waiterContainers, snapshots, slices, muSnap, drains,
                   snapshotReqCh, replies, held, supvRespch, expired, hist>>

SnapDone(t) == [mType |-> "STORAGE_SNAP_DONE", ts |-> t.ts, aborted |-> t.aborted]

\* flushDone: clear LastRollbackTs when all stream begins were seen, report
flushDone(self) ==
    /\ self \in Workers
    /\ thr[self].pc = "flushDone"
    /\ slices' = [s \in SliceIds |->
            IF /\ thr[self].hasAllSB
               /\ thr[self].instMap[s[1]] = "ACTIVE"
               /\ s[2] \in indexPartnMap[s[1]]
            THEN [slices[s] EXCEPT !.lastRollbackTs = NoTs]
            ELSE slices[s]]
    /\ supvRespch' = Send(supvRespch, SnapDone(thr[self]))
    /\ thr' = [thr EXCEPT ![self] = Idle]
    /\ UNCHANGED <<indexInstMap, indexPartnMap, indexSnapMap, snapContainers,
                   waitersMap, waiterContainers, snapshots, muSnap, drains,
                   snapshotReqCh, replies, held, expired, budget, hist>>

\* createSnapshotWorker that reports without wg.Wait()
createSnapshotWorker_doneNoWait(self) ==
    /\ self \in Workers
    /\ thr[self].pc \in {"next", "deferred"}
    /\ supvRespch' = Send(supvRespch, SnapDone(thr[self]))
    /\ thr' = [thr EXCEPT ![self] =
            IF thr[self].pc = "next" THEN Idle
            ELSE [pc |-> "deferredSent", last |-> thr[self].last]]
    /\ UNCHANGED <<indexInstMap, indexPartnMap, indexSnapMap, snapContainers,
                   waitersMap, waiterContainers, snapshots, slices, muSnap, drains,
                   snapshotReqCh, replies, held, expired, budget, hist>>

\* createSnapshotWorker after wg.Wait(): every instance has called wg.Done(),
\* report; the deferred destroy of the last instance may still be to run
createSnapshotWorker_done(self) ==
    /\ self \in Workers
    /\ thr[self].pc \in {"next", "deferred"}
    /\ thr[self].todo = {}
    /\ supvRespch' = Send(supvRespch, SnapDone(thr[self]))
    /\ thr' = [thr EXCEPT ![self] =
            IF thr[self].pc = "next" THEN Idle
            ELSE [pc |-> "deferredSent", last |-> thr[self].last]]
    /\ UNCHANGED <<indexInstMap, indexPartnMap, indexSnapMap, snapContainers,
                   waitersMap, waiterContainers, snapshots, slices, muSnap, drains,
                   snapshotReqCh, replies, held, expired, budget, hist>>

\* The lock of container c is held by the main thread, which stopped in
\* validateSnapshots at targetC.Lock() with sourceC locked (defer Unlock)
SnapCLocked(c) ==
    /\ thr[MainT].pc = "targetC.Lock"
    /\ thr[MainT].locked = c

\* createSnapshotForIndex, up to snapC.Unlock(): skip an instance that is not
\* live in the worker's instance map, else clone the container's snapshot
createSnapshotForIndex_clone(self) ==
    /\ self \in Workers
    /\ thr[self].pc = "next"
    /\ \E inst \in thr[self].todo :
        LET t == thr[self]
            cid == t.snapMap[inst]
        IN  IF t.instMap[inst] # "ACTIVE" \/ cid = 0
            THEN /\ thr' = [thr EXCEPT ![self].todo = @ \ {inst}]
                 /\ UNCHANGED snapshots
            ELSE /\ ~SnapCLocked(cid)
                 /\ thr' = [thr EXCEPT ![self].todo = @ \ {inst},
                                       ![self].cur = inst,
                                       ![self].last = snapContainers[cid].snap,
                                       ![self].pc = "build"]
                 /\ snapshots' = CloneIndexSnapshot(snapshots, snapContainers[cid].snap)
    /\ UNCHANGED <<indexInstMap, indexPartnMap, indexSnapMap, snapContainers,
                   waitersMap, waiterContainers, slices, muSnap, drains,
                   snapshotReqCh, replies, held, supvRespch, expired, budget, hist>>

\* createSnapshotForIndex returning: the deferred
\* DestroyIndexSnapshot(lastIndexSnap), which runs after the deferred wg.Done()
createSnapshotForIndex_deferred(self) ==
    /\ self \in Workers
    /\ thr[self].pc \in {"deferred", "deferredSent"}
    /\ snapshots' = DestroyIndexSnapshot(snapshots, thr[self].last)
    /\ thr' = [thr EXCEPT ![self] =
            IF thr[self].pc = "deferredSent" THEN Idle
            ELSE [thr[self] EXCEPT !.pc = "next", !.last = NoSnap,
                                   !.isDirtyCalls = {}]]
    /\ UNCHANGED <<indexInstMap, indexPartnMap, indexSnapMap, snapContainers,
                   waitersMap, waiterContainers, slices, muSnap, drains,
                   snapshotReqCh, replies, held, supvRespch, expired, budget, hist>>

\* the slice snapshot the previous index snapshot holds for partition p (0: none)
LatestSnapshot(last, p) ==
    IF last # NoSnap /\ p \in DOMAIN last.partns THEN last.partns[p] ELSE 0

\* the decision for one slice taken only for a disk flush of a dirty slice
NeedsNewSnapshotDirtyDisk(t, sl, latest) ==
    \/ latest = 0
    \/ /\ sl.dirty /\ t.stype \in {"DISK_SNAP", "DISK_SNAP_OSO"}
       /\ GreaterThan(t.ts, snapshots[latest].ts)
    \/ t.stype \in {"FORCE_COMMIT", "FORCE_COMMIT_MERGE"}

\* the decision of createSnapshotForIndex for one slice: a new storage
\* snapshot, or a reuse of the latest one
NeedsNewSnapshot(t, sl, latest) ==
    \/ latest = 0
    \/ /\ sl.dirty \/ t.stype \in {"DISK_SNAP", "DISK_SNAP_OSO"}
       /\ GreaterThan(t.ts, snapshots[latest].ts)
    \/ t.stype \in {"FORCE_COMMIT", "FORCE_COMMIT_MERGE"}

\* isSnapCreated set to true whatever the slices return
isSnapCreatedAlways(fails) == TRUE

\* isSnapCreated: false once NewSnapshot/OpenSnapshot of a slice has failed
isSnapCreated(fails) == fails = {}

\* createSnapshotForIndex, the loop over the partitions' slices and what
\* follows it up to the call of updateSnapMapAndNotify.  fails: the slices
\* whose NewSnapshot/OpenSnapshot returns an error.
createSnapshotForIndex_build(self, fails) ==
    /\ self \in Workers
    /\ thr[self].pc = "build"
    /\ LET t == thr[self]
           inst == t.cur
           P == indexPartnMap[inst]
           commit == t.stype \in {"DISK_SNAP", "DISK_SNAP_OSO", "FORCE_COMMIT",
                                  "FORCE_COMMIT_MERGE"}
           latest(p) == LatestSnapshot(t.last, p)
           created == {p \in P : NeedsNewSnapshot(t, slices[<<inst, p>>], latest(p))}
           opened == created \ fails
           n == Len(snapshots)
           newId(p) == n + Cardinality({q \in opened : q <= p})
           sid(p) == IF p \in opened THEN newId(p) ELSE latest(p)
           is == [instId |-> inst, ts |-> t.ts, vbuuids |-> t.vbuuids,
                  crc64 |-> t.crc64,
                  partns |-> [p \in (P \ created) \cup opened |-> sid(p)]]
           grown == [k \in 1..(n + Cardinality(opened)) |->
                        IF k <= n THEN snapshots[k] ELSE [rc |-> 1, ts |-> t.ts]]
           reused == {latest(p) : p \in P \ created}
           opened1 == [k \in DOMAIN grown |->
                        IF k \in reused THEN [grown[k] EXCEPT !.rc = @ + 1]
                        ELSE grown[k]]
       IN  /\ fails \subseteq created
           /\ IF t.aborted /\ P # {}
              THEN \* slice.IsDirty(); return: at the first slice the range
                   \* over the partition map comes to
                   /\ fails = {}
                   /\ snapshots' = snapshots
                   /\ \E p \in P :
                        thr' = [thr EXCEPT ![self] =
                                [Ret(self) EXCEPT !.isDirtyCalls = {<<inst, p>>}]]
                   /\ UNCHANGED <<slices, hist>>
              ELSE /\ slices' = [s \in SliceIds |->
                        IF s[1] = inst /\ s[2] \in P
                        THEN LET a == IF t.hasAllSB
                                      THEN [slices[s] EXCEPT !.lastRollbackTs = NoTs]
                                      ELSE slices[s]
                             IN  IF s[2] \in opened
                                 THEN NewSnapshot(a, t.ts, t.stype = "DISK_SNAP_OSO",
                                                  commit)
                                 ELSE a
                        ELSE slices[s]]
                   /\ hist' = [hist EXCEPT !.buildFailed =
                                    IF fails = {} THEN @ ELSE @ \cup {<<inst, t.seq>>}]
                   /\ IF isSnapCreated(fails)
                      THEN /\ snapshots' = opened1
                           /\ thr' = [thr EXCEPT ![self].is = is,
                                                 ![self].pc = "getSnapC"]
                      ELSE \* DestroyIndexSnapshot(is)
                           /\ snapshots' = DestroyIndexSnapshot(opened1, is)
                           /\ thr' = [thr EXCEPT ![self] = Ret(self)]
    /\ UNCHANGED <<indexInstMap, indexPartnMap, indexSnapMap, snapContainers,
                   waitersMap, waiterContainers, muSnap, drains,
                   snapshotReqCh, replies, held, supvRespch, expired, budget>>

\* -------------------------------------------------- updateSnapMapAndNotify
InPublish == {"getSnapC", "install", "notify", "getWc", "walk"}

\* requests the waiter registry has taken up for inst and not answered
Pending(inst) == {r \in hist.taken : r.inst = inst /\ replies[r.id] = <<>>}

\* indexSnapMap.Get()[instId], or initSnapshotContainerForInst under muSnap
updateSnapMapAndNotify_getSnapC(self) ==
    /\ thr[self].pc = "getSnapC"
    /\ LET t == thr[self]
           inst == t.is.instId
           cid == indexSnapMap[inst]
       IN  IF cid # 0
           THEN /\ thr' = [thr EXCEPT ![self].snapC = cid, ![self].pc = "install"]
                /\ UNCHANGED <<snapshots, snapContainers, indexSnapMap>>
           ELSE /\ muSnap = NoThread
                /\ IF indexInstMap[inst] # "ACTIVE"
                   THEN \* snapC == nil: return
                        /\ snapshots' = snapshots
                        /\ thr' = [thr EXCEPT ![self] = Ret(self)]
                        /\ UNCHANGED <<snapContainers, indexSnapMap>>
                   ELSE \* a new container holding is (updated = true)
                        /\ snapContainers' = Append(snapContainers,
                                                [snap |-> t.is, deleted |-> FALSE])
                        /\ indexSnapMap' = [indexSnapMap EXCEPT
                                                ![inst] = Len(snapContainers) + 1]
                        /\ thr' = [thr EXCEPT ![self].snapC = Len(snapContainers) + 1,
                                              ![self].seen = Pending(inst),
                                              ![self].late = hist.rollbacks > 0 /\ hist.rb.done,
                                              ![self].pc = "notify"]
                        /\ UNCHANGED snapshots
    /\ UNCHANGED <<indexInstMap, indexPartnMap, waitersMap, waiterContainers, slices,
                   muSnap, drains, snapshotReqCh, replies, held, supvRespch, expired,
                   budget, hist>>

\* snapC.Lock(); DestroyIndexSnapshot(snapC.snap); snapC.snap = is; Unlock()
updateSnapMapAndNotify_install(self) ==
    /\ thr[self].pc = "install"
    /\ ~SnapCLocked(thr[self].snapC)
    /\ LET t == thr[self]
           cid == t.snapC
       IN  /\ snapshots' = DestroyIndexSnapshot(snapshots, snapContainers[cid].snap)
           /\ snapContainers' = [snapContainers EXCEPT ![cid].snap = t.is]
           /\ thr' = [thr EXCEPT ![self].seen = Pending(t.is.instId),
                                 ![self].late = hist.rollbacks > 0 /\ hist.rb.done,
                                 ![self].pc = "notify"]
    /\ UNCHANGED <<indexInstMap, indexPartnMap, indexSnapMap, waitersMap,
                   waiterContainers, slices, muSnap, drains, snapshotReqCh, replies,
                   held, supvRespch, expired, budget, hist>>

\* notifySnapshotCreation(is): a clone goes to the notification channel; its
\* receiver destroys the clone when it takes it, which it does at once
notifySnapshotCreation(self) ==
    /\ thr[self].pc = "notify"
    /\ LET is == thr[self].is
       IN  /\ snapshots' = DestroyIndexSnapshot(CloneIndexSnapshot(snapshots, is), is)
           /\ hist' = IF Live(snapshots, is) THEN hist
                      ELSE [hist EXCEPT !.deadClone = @ \cup {"notify"}]
           /\ thr' = [thr EXCEPT ![self].pc = "getWc"]
    /\ UNCHANGED <<indexInstMap, indexPartnMap, indexSnapMap, snapContainers,
                   waitersMap, waiterContainers, slices, muSnap, drains,
                   snapshotReqCh, replies, held, supvRespch, expired, budget>>

\* waitersMap.Get()[instId], or initSnapshotWaitersForInst under muSnap
updateSnapMapAndNotify_getWc(self) ==
    /\ thr[self].pc = "getWc"
    /\ LET inst == thr[self].is.instId
           wid == waitersMap[inst]
       IN  IF wid # 0
           THEN /\ thr' = [thr EXCEPT ![self].wc = wid, ![self].pc = "walk"]
                /\ UNCHANGED <<snapshots, waiterContainers, waitersMap>>
           ELSE /\ muSnap = NoThread
                /\ IF indexInstMap[inst] # "ACTIVE"
                   THEN \* waitersContainer == nil: return
                        /\ snapshots' = snapshots
                        /\ thr' = [thr EXCEPT ![self] = Ret(self)]
                        /\ UNCHANGED <<waiterContainers, waitersMap>>
                   ELSE /\ waiterContainers' = Append(waiterContainers, <<>>)
                        /\ waitersMap' = [waitersMap EXCEPT
                                                ![inst] = Len(waiterContainers) + 1]
                        /\ thr' = [thr EXCEPT ![self].wc = Len(waiterContainers) + 1,
                                              ![self].pc = "walk"]
                        /\ UNCHANGED snapshots
    /\ UNCHANGED <<indexInstMap, indexPartnMap, indexSnapMap, snapContainers, slices,
                   muSnap, drains, snapshotReqCh, replies, held, supvRespch, expired,
                   budget, hist>>

\* replies on a request's channel
SnapReply(is) == [kind |-> "snapshot", is |-> is]
ErrReply(e) == [kind |-> "error", err |-> e]

WalkOutcomeConsistentFirst(w, is) ==
    IF isSnapshotConsistent(is, w.cons, w.ts) THEN "notify"
    ELSE IF w.id \in expired THEN "timeout"
    ELSE "keep"

\* the walk's decision for waiter w: expired waiters time out first
WalkOutcome(w, is) ==
    IF w.id \in expired THEN "timeout"
    ELSE IF isSnapshotConsistent(is, w.cons, w.ts) THEN "notify"
    ELSE "keep"

IdsOf(ws) == {ws[k].id : k \in DOMAIN ws}

newWaitersNewestFirst(ws, is) ==
    LET keep(w) == WalkOutcome(w, is) = "keep"
        kept == SelectSeq(ws, keep)
    IN  [k \in DOMAIN kept |-> kept[Len(kept) + 1 - k]]

\* newWaiters: the waiters the walk keeps, appended in the order of the walk
newWaiters(ws, is) ==
    LET keep(w) == WalkOutcome(w, is) = "keep"
    IN  SelectSeq(ws, keep)

\* waitersContainer.Lock(); walk the waiters; Unlock(); return
updateSnapMapAndNotify_walk(self) ==
    /\ thr[self].pc = "walk"
    /\ LET t == thr[self]
           is == t.is
           ws == waiterContainers[t.wc]
           out(k) == WalkOutcome(ws[k], is)
           notified == {ws[k].id : k \in {j \in DOMAIN ws : out(j) = "notify"}}
           timedOut == {ws[k].id : k \in {j \in DOMAIN ws : out(j) = "timeout"}}
           n == Cardinality(notified)
           cloned == [k \in DOMAIN snapshots |->
                        IF k \in SnapIdsOf(is)
                        THEN [snapshots[k] EXCEPT !.rc = @ + n] ELSE snapshots[k]]
       IN  /\ replies' = [r \in DOMAIN replies |->
                IF r \in notified THEN Append(replies[r], SnapReply(is))
                ELSE IF r \in timedOut THEN Append(replies[r], ErrReply("ErrScanTimedOut"))
                ELSE replies[r]]
           /\ waiterContainers' = [waiterContainers EXCEPT ![t.wc] = newWaiters(ws, is)]
           /\ held' = IF n = 0 \/ SnapIdsOf(is) = {} THEN held
                      ELSE IF is \in DOMAIN held THEN [held EXCEPT ![is] = @ + n]
                      ELSE [y \in DOMAIN held \cup {is} |->
                                IF y = is THEN n ELSE held[y]]
           /\ snapshots' = cloned
           /\ hist' = [hist EXCEPT
                !.deadClone = IF n > 0 /\ ~Live(snapshots, is)
                              THEN @ \cup {"waiter"} ELSE @,
                !.missed = IF indexInstMap[is.instId] # "ACTIVE" THEN @
                          ELSE @ \cup {r.id : r \in {q \in t.seen :
                                replies[q.id] = <<>> /\ q.id \notin IdsOf(ws)}},
                !.lateNotify = IF t.late THEN @ \cup (notified \cap hist.rbQueued)
                               ELSE @,
                !.numSnapshotWaiters[is.instId] =
                        @ - Cardinality(notified) - Cardinality(timedOut),
                !.lockedSends = IF notified \cup timedOut = {} THEN @
                                ELSE @ \cup {LockedSend({"wc"}, "reply")}]
           /\ thr' = [thr EXCEPT ![self] = Ret(self)]
    /\ UNCHANGED <<indexInstMap, indexPartnMap, indexSnapMap, snapContainers,
                   waitersMap, slices, muSnap, drains, snapshotReqCh, supvRespch,
                   expired, budget>>

\* ------------------------------------------------------ snapshot requests
Queued == UNION {IdsOf(waiterContainers[c]) : c \in DOMAIN waiterContainers}

UsedReqs ==
    {r \in DOMAIN replies : replies[r] # <<>>} \cup Queued \cup IdsOf(snapshotReqCh)
    \cup {r.id : r \in hist.taken}
    \cup (IF thr[LsnT].pc # "idle" THEN {thr[LsnT].req.id} ELSE {})

\* handleGetIndexSnapshot: forward the request to the listener's channel
handleGetIndexSnapshot(inst, ts, cons) ==
    /\ thr[MainT].pc = "idle"
    /\ budget > 0
    /\ DOMAIN replies \ UsedReqs # {}
    /\ LET id == CHOOSE r \in DOMAIN replies \ UsedReqs :
                    \A q \in DOMAIN replies \ UsedReqs : r <= q
       IN  snapshotReqCh' = Append(snapshotReqCh,
                                [id |-> id, inst |-> inst, ts |-> ts, cons |-> cons])
    /\ budget' = budget - 1
    /\ UNCHANGED <<indexInstMap, indexPartnMap, indexSnapMap, snapContainers,
                   waitersMap, waiterContainers, snapshots, slices, thr, muSnap,
                   drains, replies, held, supvRespch, expired, hist>>

\* listenSnapshotReqs: take a request, look the instance up, get its container
\* from the published map (initSnapshotContainerForInst if it has none)
listenSnapshotReqs_recv ==
    /\ thr[LsnT].pc = "idle"
    /\ snapshotReqCh # <<>>
    /\ LET req == Head(snapshotReqCh)
           cid == indexSnapMap[req.inst]
       IN  /\ snapshotReqCh' = Tail(snapshotReqCh)
           /\ IF indexInstMap[req.inst] # "ACTIVE"
              THEN /\ replies' = [replies EXCEPT
                                    ![req.id] = Append(@, ErrReply("ErrIndexNotFound"))]
                   /\ UNCHANGED <<thr, snapContainers, indexSnapMap>>
              ELSE /\ UNCHANGED replies
                   /\ IF cid # 0
                      THEN /\ thr' = [thr EXCEPT ![LsnT] =
                                    [pc |-> "lsnCheck", req |-> req, snapC |-> cid, wc |-> 0]]
                           /\ UNCHANGED <<snapContainers, indexSnapMap>>
                      ELSE /\ muSnap = NoThread
                           /\ snapContainers' = Append(snapContainers,
                                    [snap |-> NilSnapshot(req.inst), deleted |-> FALSE])
                           /\ indexSnapMap' = [indexSnapMap EXCEPT
                                    ![req.inst] = Len(snapContainers) + 1]
                           /\ thr' = [thr EXCEPT ![LsnT] =
                                    [pc |-> "lsnCheck", req |-> req,
                                     snapC |-> Len(snapContainers) + 1, wc |-> 0]]
    /\ UNCHANGED <<indexInstMap, indexPartnMap, waitersMap, waiterContainers, snapshots,
                   slices, muSnap, drains, held, supvRespch, expired, budget, hist>>

\* snapC.Lock(): a deleted container is refused, a consistent snapshot is
\* cloned into the reply, otherwise the request is taken up as a waiter
listenSnapshotReqs_check ==
    /\ thr[LsnT].pc = "lsnCheck"
    /\ ~SnapCLocked(thr[LsnT].snapC)
    /\ LET t == thr[LsnT]
           req == t.req
           c == snapContainers[t.snapC]
       IN  IF c.deleted
           THEN /\ replies' = [replies EXCEPT
                                    ![req.id] = Append(@, ErrReply("ErrIndexNotFound"))]
                /\ thr' = [thr EXCEPT ![LsnT] = Idle]
                /\ hist' = [hist EXCEPT
                                !.lockedSends = @ \cup {LockedSend({"snapC"}, "reply")}]
                /\ UNCHANGED <<snapshots, held>>
           ELSE IF isSnapshotConsistent(c.snap, req.cons, req.ts)
           THEN /\ replies' = [replies EXCEPT ![req.id] = Append(@, SnapReply(c.snap))]
                /\ snapshots' = CloneIndexSnapshot(snapshots, c.snap)
                /\ held' = Deliver(held, c.snap)
                /\ hist' = [hist EXCEPT
                                !.deadClone = IF Live(snapshots, c.snap) THEN @
                                              ELSE @ \cup {"reply"},
                                !.lockedSends = @ \cup {LockedSend({"snapC"}, "reply")}]
                /\ thr' = [thr EXCEPT ![LsnT] = Idle]
           ELSE /\ hist' = [hist EXCEPT !.taken = @ \cup {req}]
                /\ thr' = [thr EXCEPT ![LsnT].pc = "lsnGetWc"]
                /\ UNCHANGED <<replies, snapshots, held>>
    /\ UNCHANGED <<indexInstMap, indexPartnMap, indexSnapMap, snapContainers,
                   waitersMap, waiterContainers, slices, muSnap, drains,
                   snapshotReqCh, supvRespch, expired, budget>>

\* waitersMap.Get()[instId], or initSnapshotWaitersForInst under muSnap; the
\* waiter is counted (numSnapshotWaiters.Add(1)) before it is appended
listenSnapshotReqs_getWc ==
    /\ thr[LsnT].pc = "lsnGetWc"
    /\ LET req == thr[LsnT].req
           wid == waitersMap[req.inst]
       IN  IF wid # 0
           THEN /\ thr' = [thr EXCEPT ![LsnT].wc = wid, ![LsnT].pc = "lsnAppend"]
                /\ hist' = [hist EXCEPT !.numSnapshotWaiters[req.inst] = @ + 1]
                /\ UNCHANGED <<replies, waiterContainers, waitersMap>>
           ELSE /\ muSnap = NoThread
                /\ IF indexInstMap[req.inst] # "ACTIVE"
                   THEN /\ replies' = [replies EXCEPT
                                    ![req.id] = Append(@, ErrReply("ErrIndexNotFound"))]
                        /\ thr' = [thr EXCEPT ![LsnT] = Idle]
                        /\ UNCHANGED <<waiterContainers, waitersMap, hist>>
                   ELSE /\ waiterContainers' = Append(waiterContainers, <<>>)
                        /\ waitersMap' = [waitersMap EXCEPT
                                                ![req.inst] = Len(waiterContainers) + 1]
                        /\ thr' = [thr EXCEPT ![LsnT].wc = Len(waiterContainers) + 1,
                                              ![LsnT].pc = "lsnAppend"]
                        /\ hist' = [hist EXCEPT !.numSnapshotWaiters[req.inst] = @ + 1]
                        /\ UNCHANGED replies
    /\ UNCHANGED <<indexInstMap, indexPartnMap, indexSnapMap, snapContainers, snapshots,
                   slices, muSnap, drains, snapshotReqCh, held, supvRespch, expired,
                   budget>>

\* waitersContainer.Lock(); waiters = append(waiters, w); Unlock()
listenSnapshotReqs_append ==
    /\ thr[LsnT].pc = "lsnAppend"
    /\ waiterContainers' = [waiterContainers EXCEPT
                                ![thr[LsnT].wc] = Append(@, thr[LsnT].req)]
    /\ thr' = [thr EXCEPT ![LsnT] = Idle]
    /\ UNCHANGED <<indexInstMap, indexPartnMap, indexSnapMap, snapContainers,
                   waitersMap, snapshots, slices, muSnap, drains, snapshotReqCh,
                   replies, held, supvRespch, expired, budget, hist>>

\* the deadline of a queued waiter passes
DeadlinePasses(r) ==
    /\ r \in Queued
    /\ r \notin expired
    /\ expired' = expired \cup {r}
    /\ UNCHANGED <<indexInstMap, indexPartnMap, indexSnapMap, snapContainers,
                   waitersMap, waiterContainers, snapshots, slices, thr, muSnap,
                   drains, snapshotReqCh, replies, held, supvRespch, budget, hist>>

\* a consumer (scan, notification listener) destroys a snapshot it received
ConsumerDestroy(is) ==
    /\ is \in DOMAIN held
    /\ held' = BagDel(held, is)
    /\ snapshots' = DestroyIndexSnapshot(snapshots, is)
    /\ UNCHANGED <<indexInstMap, indexPartnMap, indexSnapMap, snapContainers,
                   waitersMap, waiterContainers, slices, thr, muSnap, drains,
                   snapshotReqCh, replies, supvRespch, expired, budget, hist>>

\* -------------------------------------------------- handleUpdateIndexInstMap
RECURSIVE DestroyAll(_, _)
\* DestroyIndexSnapshot of every index snapshot of the set iss
DestroyAll(snaps, iss) ==
    IF iss = {} THEN snaps
    ELSE LET is == CHOOSE x \in iss : TRUE
         IN  DestroyAll(DestroyIndexSnapshot(snaps, is), iss \ {is})

\* ids for the new objects of the instances of set, after base existing ones
AllocIds(set, base) == [i \in set |-> base + Cardinality({j \in set : j <= i})]

\* the index states an instance goes through
NextState(st) ==
    CASE st = "NONE" -> "ACTIVE"
      [] st = "ACTIVE" -> "DELETED"
      [] st = "DELETED" -> "GONE"
      [] OTHER -> st

InstMapUpdates ==
    {m \in [Insts -> {"NONE", "ACTIVE", "DELETED", "GONE"}] :
        /\ m # indexInstMap
        /\ \A i \in Insts : m[i] \in {indexInstMap[i], NextState(indexInstMap[i])}}

\* "Cleanup all invalid index's snapshots": the containers of the instances
\* of gone after the cleanup (their snapshots are destroyed by the caller)
cleanupContainers(cs, gone) ==
    [c \in DOMAIN cs |->
        IF \E i \in gone : indexSnapMap[i] = c
        THEN [cs[c] EXCEPT !.deleted = TRUE] ELSE cs[c]]

\* the requests for an instance of insts that are not answered yet: forwarded
\* to the listener, in the listener's hands, or queued as waiters
OpenReqs(insts) ==
    {q.id : q \in {x \in
        {snapshotReqCh[k] : k \in DOMAIN snapshotReqCh}
        \cup (IF thr[LsnT].pc # "idle" THEN {thr[LsnT].req} ELSE {})
        \cup UNION {{waiterContainers[c][k] : k \in DOMAIN waiterContainers[c]} :
                        c \in DOMAIN waiterContainers} :
        x.inst \in insts /\ replies[x.id] = <<>>}}

\* enableManager is config["enableManager"] as the handler reads it
handleUpdateIndexInstMap(newMap, enableManager) ==
    /\ thr[MainT].pc = "idle"
    /\ budget > 0
    /\ muSnap = NoThread
    /\ LET live(i) == newMap[i] = "ACTIVE"
           \* the waiter map is cloned and the clone is changed, but the clone
           \* is not Set: the containers it adds for new instances are dropped
           \* and the published map keeps the containers it deletes
           goneW == {i \in Insts : ~live(i) /\ waitersMap[i] # 0}
           drained == UNION {IdsOf(waiterContainers[waitersMap[i]]) : i \in goneW}
           goneS == {i \in Insts : ~live(i) /\ indexSnapMap[i] # 0}
           newS == {i \in Insts : live(i) /\ indexSnapMap[i] = 0}
           sIds == AllocIds(newS, Len(snapContainers))
           cleaned == cleanupContainers(snapContainers, goneS)
       IN  /\ indexInstMap' = newMap
           /\ waiterContainers' =
                [c \in DOMAIN waiterContainers |->
                    IF \E i \in goneW : waitersMap[i] = c THEN <<>>
                    ELSE waiterContainers[c]]
           /\ waitersMap' = waitersMap
           /\ replies' = [r \in DOMAIN replies |->
                    IF r \in drained THEN Append(replies[r], ErrReply("ErrIndexNotFound"))
                    ELSE replies[r]]
           /\ snapshots' = DestroyAll(snapshots,
                    {snapContainers[indexSnapMap[i]].snap : i \in goneS})
           /\ snapContainers' =
                [c \in 1..(Len(snapContainers) + Cardinality(newS)) |->
                    IF c <= Len(snapContainers) THEN cleaned[c]
                    ELSE LET i == CHOOSE j \in newS : sIds[j] = c
                         IN  [snap |-> NilSnapshot(i), deleted |-> FALSE]]
           /\ indexSnapMap' = [i \in Insts |->
                    IF i \in newS THEN sIds[i]
                    ELSE IF i \in goneS THEN 0 ELSE indexSnapMap[i]]
           /\ hist' = [hist EXCEPT
                !.gone = @ \cup OpenReqs({i \in Insts : indexInstMap[i] = "ACTIVE"
                                                        /\ newMap[i] # "ACTIVE"}),
                \* muSnap is held until the handler returns: w.Error in the
                \* waiter drain, notifySnapshotDeletion and the MsgSuccess
                !.lockedSends = @ \cup {LockedSend({"muSnap"}, "supvCmdch")}
                    \cup (IF drained = {} THEN {}
                          ELSE {LockedSend({"muSnap", "wc"}, "reply")})
                    \cup (IF goneS = {} THEN {}
                          ELSE {LockedSend({"muSnap", "snapC"}, "notify")}),
                \* without the manager the map just Set is stored in the meta
                \* file: instMap := indexInstMap is the published map, and
                \* instMap[id] = inst (Pc = nil) writes every entry of it
                !.inPlace = IF enableManager THEN @
                            ELSE @ \cup {i \in Insts : Found(newMap, i)}]
    /\ budget' = budget - 1
    /\ UNCHANGED <<indexPartnMap, slices, thr, muSnap, drains, snapshotReqCh, held,
                   supvRespch, expired>>

\* ------------------------------------------------------------ rollback engine
\* snapshotInfoContainer.GetLatest: index of the newest info (0: none)
GetLatest(infos) == IF infos = <<>> THEN 0 ELSE 1

\* snapshotInfoContainer.GetOlderThanTS: the newest info that is not ahead of
\* ts on any vbucket (0: none)
GetOlderThanTS(infos, ts) ==
    LET ok == {k \in DOMAIN infos : AsRecentTs(ts, infos[k].ts)}
    IN  IF ok = {} THEN 0 ELSE CHOOSE k \in ok : \A j \in ok : k <= j

\* findRollbackSnapshot that takes the newest snapshot whatever rollbackTs is
findRollbackSnapshotLatest(sl, rollbackTs) ==
    IF \E k \in DOMAIN sl.infos : sl.infos[k].oso THEN 0 ELSE GetLatest(sl.infos)

\* findRollbackSnapshot that takes the snapshot of the last rollback again
findRollbackSnapshotUsedAgain(sl, rollbackTs) ==
    LET infos == sl.infos
        used == {k \in DOMAIN infos : infos[k].ts = sl.lastRollbackTs}
    IN  IF \E k \in DOMAIN infos : infos[k].oso THEN 0
        ELSE IF HasZeroSeqNum(rollbackTs)
        THEN IF GetLatest(infos) = 0 \/ sl.lastRollbackTs = NoTs
             THEN GetLatest(infos)
             ELSE IF used = {} THEN 0
             ELSE CHOOSE k \in used : \A j \in used : k <= j
        ELSE GetOlderThanTS(infos, rollbackTs)

\* findRollbackSnapshot: index of the chosen snapshot info (0: nil)
findRollbackSnapshot(sl, rollbackTs) ==
    LET infos == sl.infos
        used == {k \in DOMAIN infos : infos[k].ts = sl.lastRollbackTs}
        first == CHOOSE k \in used : \A j \in used : k <= j
    IN  IF \E k \in DOMAIN infos : infos[k].oso THEN 0
        ELSE IF HasZeroSeqNum(rollbackTs)
        THEN IF GetLatest(infos) = 0 \/ sl.lastRollbackTs = NoTs
             THEN GetLatest(infos)
             ELSE IF used = {} THEN 0
             ELSE IF Len(infos) >= first + 1 THEN first + 1 ELSE 0
        ELSE GetOlderThanTS(infos, rollbackTs)

\* rollbackToSnapshot that does not return the error of the Slice call
rollbackToSnapshotSwallowErr(sl, idx, markAsUsed, fail) ==
    IF fail THEN [slice |-> sl, ts |-> NoTs, err |-> FALSE]
    ELSE IF idx # 0
    THEN [slice |-> [infos |-> SubSeq(sl.infos, idx, Len(sl.infos)),
                     dirty |-> FALSE,
                     lastRollbackTs |-> IF markAsUsed THEN sl.infos[idx].ts
                                        ELSE sl.lastRollbackTs],
          ts |-> sl.infos[idx].ts, err |-> FALSE]
    ELSE [slice |-> [infos |-> <<>>, dirty |-> FALSE, lastRollbackTs |-> NoTs],
          ts |-> NoTs, err |-> FALSE]

\* rollbackToSnapshot(slice, snapInfo, markAsUsed); fail: the Slice call errs
rollbackToSnapshot(sl, idx, markAsUsed, fail) ==
    IF fail THEN [slice |-> sl, ts |-> NoTs, err |-> TRUE]
    ELSE IF idx # 0
    THEN \* slice.Rollback(snapInfo)
         [slice |-> [infos |-> SubSeq(sl.infos, idx, Len(sl.infos)),
                     dirty |-> FALSE,
                     lastRollbackTs |-> IF markAsUsed THEN sl.infos[idx].ts
                                        ELSE sl.lastRollbackTs],
          ts |-> sl.infos[idx].ts, err |-> FALSE]
    ELSE \* slice.RollbackToZero()
         [slice |-> [infos |-> <<>>, dirty |-> FALSE, lastRollbackTs |-> NoTs],
          ts |-> NoTs, err |-> FALSE]

\* the slices and the Slice calls made so far by one rollback
RbAcc(sl) == [sl |-> sl, zeroed |-> {}, rolled |-> {}, failed |-> {}, last |-> <<>>]

\* the Slice call of rollbackToSnapshot on slice s joins the calls made: fail
\* says that the Slice returned an error, r is what rollbackToSnapshot returned
RbCall(acc, s, idx, r, fail) ==
    IF fail THEN [acc EXCEPT !.failed = @ \cup {s}, !.last = s]
    ELSE [sl |-> [acc.sl EXCEPT ![s] = r.slice],
          zeroed |-> IF idx = 0 THEN acc.zeroed \cup {s} ELSE acc.zeroed,
          rolled |-> IF idx # 0 THEN acc.rolled \cup {s} ELSE acc.rolled,
          failed |-> acc.failed, last |-> s]

MinOf(set) == CHOOSE x \in set : \A y \in set : x <= y

\* the instances a rollback of the stream/keyspace applies to
Matching(inst) == indexInstMap[inst] = "ACTIVE"

RECURSIVE rollbackIndex(_, _, _, _, _, _)
\* rollbackIndex over the sorted partitions ps still to visit
rollbackIndex(acc, inst, ps, rollbackTs, fails, minRestartTs) ==
    IF ps = {} THEN [acc |-> acc, ts |-> minRestartTs, err |-> FALSE]
    ELSE LET p == MinOf(ps)
             s == <<inst, p>>
             idx == findRollbackSnapshot(acc.sl[s], rollbackTs)
             r == rollbackToSnapshot(acc.sl[s], idx, HasZeroSeqNum(rollbackTs),
                                     s \in fails)
             acc2 == RbCall(acc, s, idx, r, s \in fails)
         IN  IF r.err THEN [acc |-> acc2, ts |-> NoTs, err |-> TRUE]
             ELSE IF r.ts = NoTs THEN [acc |-> acc2, ts |-> NoTs, err |-> FALSE]
             ELSE rollbackIndex(acc2, inst, ps \ {p}, rollbackTs, fails,
                                IF ~AsRecentTs(r.ts, minRestartTs) THEN r.ts
                                ELSE minRestartTs)

zeroSlicesFirstOnly(acc, inst, ps, fails) ==
    IF ps = {} THEN [acc |-> acc, err |-> FALSE]
    ELSE LET s == <<inst, MinOf(ps)>>
             r == rollbackToSnapshot(acc.sl[s], 0, FALSE, s \in fails)
         IN  IF r.err THEN [acc |-> RbCall(acc, s, 0, r, s \in fails), err |-> TRUE]
             ELSE [acc |-> RbCall(acc, s, 0, r, s \in fails), err |-> FALSE]

RECURSIVE zeroSlices(_, _, _, _)
\* the loop of rollbackAllToZero over the sorted partitions ps of one instance
zeroSlices(acc, inst, ps, fails) ==
    IF ps = {} THEN [acc |-> acc, err |-> FALSE]
    ELSE LET p == MinOf(ps)
             s == <<inst, p>>
             r == rollbackToSnapshot(acc.sl[s], 0, FALSE, s \in fails)
         IN  IF r.err THEN [acc |-> RbCall(acc, s, 0, r, s \in fails), err |-> TRUE]
             ELSE zeroSlices(RbCall(acc, s, 0, r, s \in fails), inst, ps \ {p}, fails)

RECURSIVE rollbackAllToZero(_, _, _)
\* rollbackAllToZero, visiting the partition map in the given order
rollbackAllToZero(acc, order, fails) ==
    IF order = <<>> THEN [acc |-> acc, err |-> FALSE]
    ELSE IF ~Matching(Head(order)) THEN rollbackAllToZero(acc, Tail(order), fails)
    ELSE LET z == zeroSlices(acc, Head(order), indexPartnMap[Head(order)], fails)
         IN  IF z.err THEN z ELSE rollbackAllToZero(z.acc, Tail(order), fails)

RECURSIVE rollbackLoop(_, _, _, _, _, _)
\* the loop of handleRollback over the partition map, in the given order
rollbackLoop(acc, order, zorder, rollbackTs, fails, restartTs) ==
    IF order = <<>>
    THEN [acc |-> acc, ts |-> restartTs, err |-> FALSE, toZero |-> FALSE]
    ELSE IF ~Matching(Head(order))
    THEN rollbackLoop(acc, Tail(order), zorder, rollbackTs, fails, restartTs)
    ELSE LET r == rollbackIndex(acc, Head(order), indexPartnMap[Head(order)],
                                rollbackTs, fails, restartTs)
             z == rollbackAllToZero(r.acc, zorder, fails)
         IN  IF r.err
             THEN [acc |-> r.acc, ts |-> NoTs, err |-> TRUE, toZero |-> FALSE]
             ELSE IF r.ts = NoTs
             THEN [acc |-> z.acc, ts |-> NoTs, err |-> z.err, toZero |-> ~z.err]
             ELSE rollbackLoop(r.acc, Tail(order), zorder, rollbackTs, fails, r.ts)

\* orders in which a Go map over the instances can be ranged
Orders ==
    {o \in [1..NumInsts -> Insts] : \A a, b \in 1..NumInsts : a # b => o[a] # o[b]}

RollbackDone(ts, err, sessionId) ==
    [mType |-> "INDEXER_ROLLBACK_DONE", restartTs |-> ts, err |-> err,
     sessionId |-> sessionId]

\* some slice of a matching instance has an OSO snapshot or no eligible one
AnyIneligible(rollbackTs) ==
    \E i \in Insts : Matching(i) /\
        \E p \in indexPartnMap[i] : findRollbackSnapshot(slices[<<i, p>>], rollbackTs) = 0

\* the slices of the instances the rollback applies to
MatchingSlices == {s \in SliceIds : Matching(s[1]) /\ s[2] \in indexPartnMap[s[1]]}

\* handleRollback up to the start of updateIndexSnapMap: roll the slices back,
\* reply with the error if a Slice call failed, else spawn the waiter drain
handleRollback(rollbackTs, fails, order, zorder) ==
    /\ thr[MainT].pc = "idle"
    /\ budget > 0
    /\ muSnap = NoThread
    /\ budget' = budget - 1
    /\ \E r \in {rollbackLoop(RbAcc(slices), order, zorder, rollbackTs, fails, NoTs)} :
       LET sessionId == budget
           queued == UNION {IdsOf(waiterContainers[waitersMap[i]]) :
                                i \in {j \in Insts : Found(indexInstMap, j)
                                                     /\ waitersMap[j] # 0}}
           obs == [ts |-> rollbackTs, ineligible |-> AnyIneligible(rollbackTs),
                   toZero |-> r.toZero,
                   matching |-> MatchingSlices, zeroed |-> r.acc.zeroed,
                   rolled |-> r.acc.rolled, err |-> r.err, done |-> r.err,
                   sent |-> NoTs, sid |-> sessionId, failed |-> r.acc.failed,
                   last |-> r.acc.last, msgs |-> IF r.err THEN 1 ELSE 0,
                   reply |-> IF r.err THEN RollbackDone(NoTs, TRUE, sessionId)
                             ELSE <<>>,
                   attempts |-> 0, slept |-> 0, fetched |-> FALSE,
                   used |-> {s \in MatchingSlices : slices[s].lastRollbackTs # NoTs}]
       IN  /\ slices' = r.acc.sl
           /\ IF r.err
              THEN /\ supvRespch' = Send(supvRespch, RollbackDone(NoTs, TRUE, sessionId))
                   /\ hist' = [hist EXCEPT !.rb = obs,
                        !.lockedSends = @ \cup {LockedSend({"statsLock"}, "supvRespch")}]
                   /\ UNCHANGED <<thr, muSnap, drains>>
              ELSE /\ drains' = drains + 1
                   /\ muSnap' = MainT
                   /\ thr' = [thr EXCEPT ![MainT] =
                            [pc |-> "updateIndexSnapMap", todo |-> Insts, cur |-> 0,
                             snapC |-> 0, restartTs |-> r.ts, sessionId |-> sessionId]]
                   /\ hist' = [hist EXCEPT !.rb = obs,
                                           !.rbQueued = @ \cup queued,
                                           !.rollbacks = 1]
                   /\ UNCHANGED supvRespch
    /\ UNCHANGED <<indexInstMap, indexPartnMap, indexSnapMap, snapContainers,
                   waitersMap, waiterContainers, snapshots, snapshotReqCh, replies,
                   held, expired>>

\* the goroutine of handleRollback: every waiter of the stream/keyspace gets
\* ErrIndexRollback
handleRollback_drain ==
    /\ drains > 0
    /\ drains' = drains - 1
    /\ LET hit == {i \in Insts : Found(indexInstMap, i) /\ waitersMap[i] # 0}
           drained == UNION {IdsOf(waiterContainers[waitersMap[i]]) : i \in hit}
       IN  /\ replies' = [r \in DOMAIN replies |->
                IF r \in drained THEN Append(replies[r], ErrReply("ErrIndexRollback"))
                ELSE replies[r]]
           /\ waiterContainers' = [c \in DOMAIN waiterContainers |->
                IF \E i \in hit : waitersMap[i] = c THEN <<>> ELSE waiterContainers[c]]
           /\ hist' = [hist EXCEPT
                !.numSnapshotWaiters = [i \in Insts |->
                    IF i \in hit THEN @[i] - Len(waiterContainers[waitersMap[i]])
                    ELSE @[i]],
                !.lockedSends = IF drained = {} THEN @
                                ELSE @ \cup {LockedSend({"wc"}, "reply")}]
    /\ UNCHANGED <<indexInstMap, indexPartnMap, indexSnapMap, snapContainers,
                   waitersMap, snapshots, slices, thr, muSnap, snapshotReqCh, held,
                   supvRespch, expired, budget>>

\* updateIndexSnapMapForIndex up to notifySnapshotDeletion: skip an instance
\* of another keyspace or a deleted one, else destroy the container's
\* snapshot and take the container out of the published map
updateIndexSnapMapForIndex_destroy ==
    /\ thr[MainT].pc = "updateIndexSnapMap"
    /\ \E inst \in thr[MainT].todo :
        LET cid == indexSnapMap[inst]
        IN  IF ~Matching(inst)
            THEN /\ thr' = [thr EXCEPT ![MainT].todo = @ \ {inst}]
                 /\ UNCHANGED <<snapshots, indexSnapMap>>
            ELSE /\ thr' = [thr EXCEPT ![MainT].todo = @ \ {inst},
                                       ![MainT].cur = inst,
                                       ![MainT].snapC = cid,
                                       ![MainT].pc = "openSnapshot"]
                 /\ IF cid # 0
                    THEN /\ snapshots' = DestroyIndexSnapshot(snapshots,
                                                snapContainers[cid].snap)
                         /\ indexSnapMap' = [indexSnapMap EXCEPT ![inst] = 0]
                    ELSE UNCHANGED <<snapshots, indexSnapMap>>
    /\ UNCHANGED <<indexInstMap, indexPartnMap, snapContainers, waitersMap,
                   waiterContainers, slices, muSnap, drains, snapshotReqCh, replies,
                   held, supvRespch, expired, budget, hist>>

RECURSIVE openSnapshots(_, _, _)
\* the loop of updateIndexSnapMapForIndex over the partitions ps: openSnapshot
\* opens the newest snapshot info of each slice.  o = [snaps, sl, partns, ts];
\* partns = NoPartns with nil = TRUE stands for partnSnapMap == nil
openSnapshots(o, inst, ps) ==
    IF ps = {} THEN o
    ELSE LET p == MinOf(ps)
             s == <<inst, p>>
             infos == o.sl[s].infos
             id == Len(o.snaps) + 1
             opened == Append(o.snaps, [rc |-> 1, ts |-> infos[1].ts])
         IN  IF infos = <<>>
             THEN [o EXCEPT !.partns = NoPartns, !.nil = TRUE]
             ELSE IF infos[1].oso
             THEN \* OSO snapshot: roll every partition back to zero
                  [snaps |-> opened,
                   sl |-> [x \in SliceIds |->
                            IF x[1] = inst /\ x[2] \in indexPartnMap[inst]
                            THEN rollbackToSnapshot(o.sl[x], 0, FALSE, FALSE).slice
                            ELSE o.sl[x]],
                   partns |-> NoPartns, ts |-> infos[1].ts, nil |-> TRUE]
             ELSE openSnapshots(
                    [snaps |-> opened, sl |-> o.sl,
                     partns |-> [q \in DOMAIN o.partns \cup {p} |->
                                    IF q = p THEN id ELSE o.partns[q]],
                     ts |-> infos[1].ts, nil |-> FALSE],
                    inst, ps \ {p})

\* updateIndexSnapMapForIndex from the openSnapshot loop on: rebuild the
\* instance's snapshot from disk and publish it, or add a nil snapshot
updateIndexSnapMapForIndex_open ==
    /\ thr[MainT].pc = "openSnapshot"
    /\ \E o \in {openSnapshots([snaps |-> snapshots, sl |-> slices, partns |-> NoPartns,
                                 ts |-> NoTs, nil |-> FALSE],
                                thr[MainT].cur, indexPartnMap[thr[MainT].cur])} :
       LET t == thr[MainT]
           inst == t.cur
           is == [instId |-> inst, ts |-> o.ts, vbuuids |-> FlushVbuuids,
                  crc64 |-> HashVbuuid(FlushVbuuids), partns |-> o.partns]
           new == Len(snapContainers) + 1
       IN  /\ slices' = o.sl
           /\ IF DOMAIN o.partns # {}
              THEN \* notifySnapshotCreation(is)
                   /\ snapshots' = DestroyIndexSnapshot(CloneIndexSnapshot(o.snaps, is), is)
                   /\ IF t.snapC = 0
                      THEN /\ snapContainers' = Append(snapContainers,
                                                    [snap |-> is, deleted |-> FALSE])
                           /\ indexSnapMap' = [indexSnapMap EXCEPT ![inst] = new]
                      ELSE /\ snapContainers' = [snapContainers EXCEPT
                                                    ![t.snapC].snap = is]
                           /\ indexSnapMap' = [indexSnapMap EXCEPT ![inst] = t.snapC]
              ELSE \* addNilSnapshot
                   /\ snapshots' = o.snaps
                   /\ IF indexSnapMap[inst] = 0
                      THEN /\ snapContainers' = Append(snapContainers,
                                    [snap |-> NilSnapshot(inst), deleted |-> FALSE])
                           /\ indexSnapMap' = [indexSnapMap EXCEPT ![inst] = new]
                      ELSE UNCHANGED <<snapContainers, indexSnapMap>>
           /\ thr' = [thr EXCEPT ![MainT].cur = 0, ![MainT].snapC = 0,
                                 ![MainT].pc = "updateIndexSnapMap"]
    /\ UNCHANGED <<indexInstMap, indexPartnMap, waitersMap, waiterContainers, muSnap,
                   drains, snapshotReqCh, replies, held, supvRespch, expired, budget,
                   hist>>

\* the loop of validateRestartTsVbuuid from attempt i on, when the first
\* flogFails calls of BucketFailoverLog return an error: a failed attempt
\* sleeps one second and the loop goes on, a successful one ends the loop
RECURSIVE fetchFailoverLog(_, _, _)
fetchFailoverLog(i, flogFails, slept) ==
    IF i >= MAX_GETSEQS_RETRIES
    THEN [attempts |-> i, slept |-> slept, fetched |-> FALSE]
    ELSE IF i < flogFails
    THEN fetchFailoverLog(i + 1, flogFails, slept + 1)
    ELSE [attempts |-> i + 1, slept |-> slept, fetched |-> TRUE]

\* validateRestartTsVbuuid: the timestamp it returns (a timestamp is
\* its seqnos here, which the failover log does not change), and how the
\* fetch of the failover log went
validateRestartTsVbuuid(restartTs, flogFails) ==
    [restartTs |-> restartTs, flog |-> fetchFailoverLog(0, flogFails, 0)]

\* handleRollback after updateIndexSnapMap: release muSnap, validate the
\* restart timestamp, if there is one, and send RollbackDone; the first
\* flogFails fetches of the failover log fail
handleRollback_done(flogFails) ==
    /\ thr[MainT].pc = "updateIndexSnapMap"
    /\ thr[MainT].todo = {}
    /\ muSnap' = NoThread
    /\ \E v \in {IF thr[MainT].restartTs # NoTs
                  THEN validateRestartTsVbuuid(thr[MainT].restartTs, flogFails)
                  ELSE [restartTs |-> NoTs,
                        flog |-> [attempts |-> 0, slept |-> 0, fetched |-> FALSE]]} :
        /\ supvRespch' = Send(supvRespch, RollbackDone(v.restartTs, FALSE,
                                                       thr[MainT].sessionId))
        /\ hist' = [hist EXCEPT !.rb.done = TRUE, !.rb.sent = v.restartTs,
                                !.rb.msgs = @ + 1,
                                !.rb.reply = RollbackDone(v.restartTs, FALSE,
                                                          thr[MainT].sessionId),
                                !.rb.attempts = v.flog.attempts,
                                !.rb.slept = v.flog.slept,
                                !.rb.fetched = v.flog.fetched,
                                !.lockedSends =
                                    @ \cup {LockedSend({"statsLock"}, "supvRespch")}]
    /\ thr' = [thr EXCEPT ![MainT] = Idle]
    /\ UNCHANGED <<indexInstMap, indexPartnMap, indexSnapMap, snapContainers,
                   waitersMap, waiterContainers, snapshots, slices, drains,
                   snapshotReqCh, replies, held, expired, budget>>

\* ------------------------------------------------------------ specification
\* inputs of the lifecycle specification: the supervisor creates and deletes
\* the first MaxLiveInsts instances, and flushes and requests carry the same
\* seqno on every vbucket
LiveInsts == 1..MaxLiveInsts
LiveInstMapUpdates == {m \in InstMapUpdates : \A i \in Insts \ LiveInsts : m[i] = "NONE"}
UniformTs == {[v \in Vbs |-> q] : q \in 1..MaxSeq}
FlushTypes == {"NO_SNAP", "INMEM_SNAP", "DISK_SNAP"}

Next ==
    \/ \E ts \in UniformTs, st \in FlushTypes, ab \in BOOLEAN :
            handleCreateSnapshot(ts, st, ab, FALSE, 1..MaxSpecWorkers)
    \/ \E w \in Workers : flushDone(w)
    \/ \E w \in Workers : createSnapshotWorker_done(w)
    \/ \E w \in Workers : createSnapshotForIndex_clone(w)
    \/ \E w \in Workers : createSnapshotForIndex_build(w, {})
    \/ \E w \in Workers : createSnapshotForIndex_deferred(w)
    \/ \E t \in Threads : updateSnapMapAndNotify_getSnapC(t)
    \/ \E t \in Threads : updateSnapMapAndNotify_install(t)
    \/ \E t \in Threads : notifySnapshotCreation(t)
    \/ \E t \in Threads : updateSnapMapAndNotify_getWc(t)
    \/ \E t \in Threads : updateSnapMapAndNotify_walk(t)
    \/ \E i \in LiveInsts, ts \in UniformTs, c \in {"any", "query"} :
            handleGetIndexSnapshot(i, ts, c)
    \/ listenSnapshotReqs_recv
    \/ listenSnapshotReqs_check
    \/ listenSnapshotReqs_getWc
    \/ listenSnapshotReqs_append
    \/ \E m \in LiveInstMapUpdates : handleUpdateIndexInstMap(m, TRUE)
    \/ \E ts \in UniformTs \cup {ZeroTs}, o \in Orders :
            handleRollback(ts, {}, o, o)
    \/ handleRollback_drain
    \/ updateIndexSnapMapForIndex_destroy
    \/ updateIndexSnapMapForIndex_open
    \* the failover log is fetched at the first attempt
    \/ handleRollback_done(0)
    \/ \E r \in ReqIds : DeadlinePasses(r)
    \/ \E is \in DOMAIN held : ConsumerDestroy(is)

Spec == Init /\ [][Next]_vars

\* ------------------------------------------------- rollback specification
\* timestamps of committed snapshots: some mutation seen on every vbucket
InfoTs == {ts \in TsSet : ~HasZeroSeqNum(ts)}

\* the snapshot infos a slice can have on disk: newest first, every commit
\* ahead of the one before it
Chains ==
    {c \in UNION {[1..n -> [ts : InfoTs, oso : BOOLEAN]] : n \in 0..MaxInfos} :
        \A k \in 1..(Len(c) - 1) : GreaterThan(c[k].ts, c[k + 1].ts)}

\* a slice as the process finds it on disk: a clean slice whose
\* LastRollbackTs, if set, is the timestamp of the snapshot it was rolled
\* back to
SliceStates ==
    {[infos |-> c, dirty |-> FALSE, lastRollbackTs |-> l] :
        c \in Chains, l \in {NoTs}} \cup
    {[infos |-> c, dirty |-> FALSE, lastRollbackTs |-> c[1].ts] :
        c \in {d \in Chains : d # <<>> /\ \A k \in DOMAIN d : ~d[k].oso}}

\* the process restarts: every instance is partitioned over all the
\* partitions, and the partitions of an instance were flushed and rolled
\* back together
InitRollback ==
    \E disk \in [Insts -> SliceStates] :
        NewStorageManager([i \in Insts |-> Partns],
                          [s \in SliceIds |-> disk[s[1]]], MaxRbCmds)

\* the slices whose Slice.Rollback / RollbackToZero call returns an error:
\* none, or the last partition of one instance
FailSets == {{}} \cup {{<<i, NumInsts>>} : i \in Insts}

\* rollback timestamps: every timestamp without a zero seqno, and with a zero
\* seqno on every vbucket or on the first one only
RollbackTsSet ==
    InfoTs \cup {ZeroTs, [v \in Vbs |-> IF v = 1 THEN 0 ELSE MaxSeq]}

NextRollback ==
    \/ \E m \in InstMapUpdates : handleUpdateIndexInstMap(m, TRUE)
    \/ \E ts \in RollbackTsSet, f \in FailSets, o \in Orders, z \in Orders :
            handleRollback(ts, f, o, z)
    \/ handleRollback_drain
    \/ updateIndexSnapMapForIndex_destroy
    \/ updateIndexSnapMapForIndex_open
    \* the failover log is fetched at the first attempt
    \/ handleRollback_done(0)

SpecRollback == InitRollback /\ [][NextRollback]_vars

\* ---------------------------------------------------- flush specification
\* the supervisor creates the instances and sends flushes, which run
\* concurrently; a Slice.NewSnapshot / OpenSnapshot call may fail
InitFlush ==
    NewStorageManager([i \in Insts |-> {i}], [s \in SliceIds |-> NoSlice], MaxFlushCmds)

FlushInstMapUpdates == {m \in InstMapUpdates : \A i \in Insts : m[i] \in {"NONE", "ACTIVE"}}

\* the FlushDone messages of the run: one that skips the snapshot, an
\* in-memory one, a disk one at a later timestamp, and an aborted flush
FlushMsgs ==
    {[ts |-> [v \in Vbs |-> 1], stype |-> "NO_SNAP", aborted |-> FALSE],
     [ts |-> [v \in Vbs |-> 1], stype |-> "INMEM_SNAP", aborted |-> FALSE],
     [ts |-> [v \in Vbs |-> MaxSeq], stype |-> "DISK_SNAP", aborted |-> FALSE],
     [ts |-> [v \in Vbs |-> MaxSeq], stype |-> "INMEM_SNAP", aborted |-> TRUE]}

WorkerStep(w) ==
    \/ flushDone(w)
    \/ createSnapshotWorker_done(w)
    \/ createSnapshotForIndex_clone(w)
    \/ \E f \in SUBSET Partns : createSnapshotForIndex_build(w, f)
    \/ createSnapshotForIndex_deferred(w)
    \/ updateSnapMapAndNotify_getSnapC(w)
    \/ updateSnapMapAndNotify_install(w)
    \/ notifySnapshotCreation(w)
    \/ updateSnapMapAndNotify_getWc(w)
    \/ updateSnapMapAndNotify_walk(w)

NextFlush ==
    \/ \E m \in FlushInstMapUpdates : handleUpdateIndexInstMap(m, TRUE)
    \/ \E m \in FlushMsgs :
            handleCreateSnapshot(m.ts, m.stype, m.aborted, FALSE, Workers)
    \/ \E w \in Workers : WorkerStep(w)
    \/ \E i \in Insts : handleGetIndexSnapshot(i, [v \in Vbs |-> MaxSeq], "query")
    \/ listenSnapshotReqs_recv
    \/ listenSnapshotReqs_check
    \/ listenSnapshotReqs_getWc
    \/ listenSnapshotReqs_append

\* a goroutine that can take a step is scheduled
SpecFlush ==
    InitFlush /\ [][NextFlush]_vars /\ \A w \in Workers : WF_vars(WorkerStep(w))

\* ------------------------------------------------------------- properties
\* no goroutine is inside a handler, no request is in flight
Quiescent ==
    /\ \A t \in Threads : thr[t].pc = "idle"
    /\ drains = 0
    /\ snapshotReqCh = <<>>
    /\ muSnap = NoThread

\* C1: no storage-snapshot refcount is ever decremented more often than it
\* was incremented: every refcount stays >= 0 in every reachable state.
C1_RefcountNeverNegative == \A k \in DOMAIN snapshots : snapshots[k].rc >= 0

\* the containers a reader can still reach: through the published map, through
\* the map a flush worker was handed, or through a pointer it already loaded
ReachableContainers ==
    ({indexSnapMap[i] : i \in Insts}
     \cup UNION {{thr[w].snapMap[i] : i \in {j \in thr[w].todo : thr[w].instMap[j] = "ACTIVE"}} :
                    w \in {v \in Workers : thr[v].pc \in {"next", "deferred"}}}
     \cup {thr[t].snapC : t \in {u \in Threads : thr[u].pc \in {"install", "lsnCheck"}}})
    \ {0}

\* C2: the current snapshot of every reachable container that is not marked
\* deleted references only slice snapshots with refcount >= 1.
C2_ReachableContainersLive ==
    \A c \in ReachableContainers :
        ~snapContainers[c].deleted => Live(snapshots, snapContainers[c].snap)

\* C3: every index snapshot cloned for a consumer (immediate reply, notified
\* waiter, notification channel) has refcount >= 1 on every slice snapshot at
\* the moment it is cloned.
C3_DeliveredClonesLive == hist.deadClone = {}

RECURSIVE HeldRefs(_, _)
\* the references the undestroyed delivered clones of iss hold on snapshot k
HeldRefs(iss, k) ==
    IF iss = {} THEN 0
    ELSE LET is == CHOOSE x \in iss : TRUE
         IN  (IF k \in SnapIdsOf(is) THEN held[is] ELSE 0) + HeldRefs(iss \ {is}, k)

\* the index snapshots not yet destroyed that reference storage snapshot k
Holders(k) ==
    Cardinality({i \in Insts : indexSnapMap[i] # 0
                    /\ k \in SnapIdsOf(snapContainers[indexSnapMap[i]].snap)})
    + HeldRefs(DOMAIN held, k)

\* C4: whenever no operation is in progress, the refcount of every storage
\* snapshot equals the number of undestroyed index snapshots referencing it
\* (the container's current snapshot and the delivered clones not destroyed).
C4_RefcountEqualsHolders ==
    Quiescent => \A k \in DOMAIN snapshots : snapshots[k].rc = Holders(k)

\* C5: no snapshot is published for an instance after the waiter registry
\* took a request up without the request being tested against it.
C5_NoPublishMissesWaiter == hist.missed = {}

C7_RollbackWaitersOnlyRolledBack ==
    \A r \in hist.rbQueued :
        \A k \in DOMAIN replies[r] : replies[r][k] = ErrReply("ErrIndexRollback")

\* C8: no waiter queued before a rollback is notified with a snapshot
\* published after the rollback.
C8_NoNotifyAfterRollback == hist.lateNotify = {}

\* C9 as the spec states it: the restartTs of an error-free RollbackDone is
\* nil or not ahead of rollbackTs on any vbucket, for every rollbackTs.
C9_RestartTsNotAheadOfRollbackTs ==
    (hist.rb.done /\ ~hist.rb.err) =>
        (hist.rb.sent = NoTs \/ AsRecentTs(hist.rb.ts, hist.rb.sent))

\* C9 as the code has it: the restartTs of an error-free RollbackDone is nil
\* or not ahead of rollbackTs on any vbucket when rollbackTs has no zero
\* seqno; with a zero seqno the newest unused snapshot is taken whatever its
\* timestamp.
C9_RestartTsNotAheadWithoutZeroSeqno ==
    (hist.rb.done /\ ~hist.rb.err /\ ~HasZeroSeqNum(hist.rb.ts)) =>
        (hist.rb.sent = NoTs \/ AsRecentTs(hist.rb.ts, hist.rb.sent))

\* a rollback without zero seqno restarts from a snapshot behind rollbackTs
C9_Witness ==
    /\ hist.rb.done
    /\ ~hist.rb.err
    /\ ~HasZeroSeqNum(hist.rb.ts)
    /\ hist.rb.sent # NoTs
    /\ hist.rb.sent # hist.rb.ts
    /\ hist.rb.rolled # {}

\* C10: when some slice of a matching non-deleted instance has an OSO
\* snapshot info or no eligible snapshot, a rollback that no Slice error
\* aborts calls RollbackToZero on every slice of every matching instance,
\* the slices rolled back to a snapshot earlier in the pass included, and
\* RollbackDone carries restartTs = nil.
C10_IneligibleSliceZeroesAll ==
    (hist.rb.done /\ ~hist.rb.err /\ hist.rb.ineligible) =>
        /\ hist.rb.zeroed = hist.rb.matching
        /\ hist.rb.sent = NoTs

\* one instance was rolled back to a snapshot before a slice of the other
\* one turned out to have no eligible snapshot
C10_Witness ==
    /\ hist.rb.done
    /\ ~hist.rb.err
    /\ hist.rb.ineligible
    /\ hist.rb.rolled # {}
    /\ \A i \in Insts : \E s \in hist.rb.matching : s[1] = i

\* C11: a Rollback command is answered by exactly one RollbackDone, which
\* carries the command's sessionId; when a Slice.Rollback or
\* Slice.RollbackToZero call returned an error, no Slice call follows the
\* failing one, no snapshot container is rebuilt, and the RollbackDone
\* carries the error and no restart timestamp.
C11_RollbackDoneOncePerRollback ==
    /\ hist.rb.msgs <= 1
    /\ (hist.rb.sid # 0 /\ thr[MainT].pc = "idle") =>
            /\ hist.rb.msgs = 1
            /\ hist.rb.reply.sessionId = hist.rb.sid
    /\ thr[MainT].pc \in {"updateIndexSnapMap", "openSnapshot"} => hist.rb.msgs = 0
    /\ hist.rb.failed # {} =>
            /\ thr[MainT].pc = "idle"
            /\ hist.rb.last \in hist.rb.failed
            /\ hist.rb.reply = RollbackDone(NoTs, TRUE, hist.rb.sid)

\* a rollback that had rolled a slice back when a later Slice call failed
C11_Witness ==
    /\ hist.rb.failed # {}
    /\ hist.rb.rolled # {}
    /\ hist.rb.reply.err

\* C12: a request that was queued as a waiter, or was still to be processed,
\* when an instance-map update deleted its instance is never answered with a
\* snapshot, and once the storage manager is at rest it has been answered
\* with IndexNotFound.
C12_DeletedInstanceRequestsNotFound ==
    \A r \in hist.gone :
        /\ \A k \in DOMAIN replies[r] : replies[r][k].kind # "snapshot"
        /\ Quiescent => replies[r] = <<ErrReply("ErrIndexNotFound")>>

\* ------------------------------------------------------ merge specification
\* TsVbuuid.EqualOrGreater(ts, false): no seqno lower
EqualOrGreater(a, b) == \A v \in Vbs : a[v] >= b[v]

\* deepCloneIndexSnapshot keeping every partition
deepClonePartnsAll(is, doPrune, keepPartnIds) == DOMAIN is.partns

\* deepCloneIndexSnapshot(is, doPrune, keepPartnIds): the partitions cloned
deepClonePartns(is, doPrune, keepPartnIds) ==
    IF doPrune THEN DOMAIN is.partns \cap keepPartnIds ELSE DOMAIN is.partns

\* deepCloneIndexSnapshot: a new index snapshot of the same instance and
\* timestamp over the partitions cloned
deepCloneIndexSnapshot(is, doPrune, keepPartnIds) ==
    [is EXCEPT !.partns = [p \in deepClonePartns(is, doPrune, keepPartnIds) |->
                                is.partns[p]]]

\* a deep clone that opens no slice snapshot
deepCloneNoOpen(snaps, clone) == snaps

\* its Open() of every slice snapshot of the clone
deepCloneOpen(snaps, clone) == CloneIndexSnapshot(snaps, clone)

MsgSuccess == [mType |-> "MSG_SUCCESS"]
MsgError == [mType |-> "MSG_ERROR", code |-> "ERROR_STORAGE_MGR_MERGE_SNAPSHOT_FAIL",
             severity |-> "FATAL"]

\* the three checks of validateSnapshots, made when the target has a container
TimestampMismatch(source, target) == ~EqualOrGreater(source.ts, target.ts)

\* the partition count check left out
MissingPartitionsUnchecked(source, partitions) == FALSE

MissingPartitions(source, partitions) ==
    LET count == Cardinality({p \in partitions : p \in DOMAIN source.partns})
    IN  /\ DOMAIN source.partns # {}
        /\ \/ count # Cardinality(partitions)
           \/ count # Cardinality(DOMAIN source.partns)

DuplicatePartition(source, target) ==
    /\ DOMAIN source.partns # {}
    /\ DOMAIN source.partns \cap DOMAIN target.partns # {}

\* handleIndexMergeSnapshot up to the call of updateSnapMapAndNotify
handleIndexMergeSnapshot(srcInstId, tgtInstId, partitions) ==
    /\ thr[MainT].pc = "idle"
    /\ budget > 0
    /\ budget' = budget - 1
    /\ LET sc == indexSnapMap[srcInstId]
           tc == indexSnapMap[tgtInstId]
           source == IF sc = 0 THEN NoSnap ELSE snapContainers[sc].snap
           target == IF tc = 0 THEN NoSnap ELSE snapContainers[tc].snap
           obs == [src |-> srcInstId, tgt |-> tgtInstId, partitions |-> partitions,
                   hadC |-> tc # 0,
                   flushing |-> \E w \in Workers : thr[w].pc # "idle",
                   source |-> source, target |-> target, cmdReplies |-> <<>>,
                   seq |-> budget, snaps |-> snapshots, held |-> held]
           publish(is, snaps) ==
                /\ snapshots' = snaps
                /\ thr' = [thr EXCEPT ![MainT] =
                        [pc |-> "getSnapC", is |-> is, snapC |-> 0, wc |-> 0,
                         seen |-> {}, late |-> FALSE]]
                /\ hist' = [hist EXCEPT !.merge = obs]
           reply(m) ==
                /\ hist' = [hist EXCEPT
                        !.merge = [obs EXCEPT !.cmdReplies = <<m>>],
                        \* MsgError is sent inside validateSnapshots, which holds
                        \* the locks of the two containers
                        !.lockedSends = IF m = MsgSuccess THEN @
                                        ELSE @ \cup {LockedSend({"snapC"}, "supvCmdch")}]
                /\ UNCHANGED <<snapshots, thr>>
       IN  IF sc = 0 THEN reply(MsgSuccess)
           ELSE IF tc = sc
           THEN \* sourceC.Lock() is followed by targetC.Lock() on the same
                \* container: the mutex is not reentrant
                /\ thr' = [thr EXCEPT ![MainT] =
                        [pc |-> "targetC.Lock", locked |-> sc, waits |-> tc]]
                /\ hist' = [hist EXCEPT !.merge = obs]
                /\ UNCHANGED snapshots
           ELSE IF tc = 0
           THEN \* target = deepCloneIndexSnapshot(source, false, nil)
                LET clone == deepCloneIndexSnapshot(source, FALSE, {})
                IN  publish(clone, deepCloneOpen(snapshots, clone))
           ELSE IF \/ TimestampMismatch(source, target)
                   \/ MissingPartitions(source, partitions)
                   \/ DuplicatePartition(source, target)
           THEN reply(MsgError)
           ELSE LET tclone == deepCloneIndexSnapshot(target, FALSE, {})
                    sclone == deepCloneIndexSnapshot(source, TRUE, partitions)
                    moved == IF partitions # {} THEN DOMAIN sclone.partns ELSE {}
                    merged == [tclone EXCEPT !.partns =
                                [p \in DOMAIN tclone.partns \cup moved |->
                                    IF p \in moved THEN sclone.partns[p]
                                    ELSE tclone.partns[p]]]
                    opened == deepCloneOpen(snapshots, tclone)
                IN  publish(merged, IF partitions # {} THEN deepCloneOpen(opened, sclone)
                                    ELSE opened)
    /\ UNCHANGED <<indexInstMap, indexPartnMap, indexSnapMap, snapContainers,
                   waitersMap, waiterContainers, slices, muSnap, drains,
                   snapshotReqCh, replies, held, supvRespch, expired>>

\* handleIndexMergeSnapshot after updateSnapMapAndNotify has returned
handleIndexMergeSnapshot_done ==
    /\ thr[MainT].pc = "MsgSuccess"
    /\ ~hist.prune.pending
    /\ thr' = [thr EXCEPT ![MainT] = Idle]
    /\ hist' = [hist EXCEPT !.merge.cmdReplies = Append(@, MsgSuccess)]
    /\ UNCHANGED <<indexInstMap, indexPartnMap, indexSnapMap, snapContainers,
                   waitersMap, waiterContainers, snapshots, slices, muSnap, drains,
                   snapshotReqCh, replies, held, supvRespch, expired, budget>>

\* handleIndexPruneSnapshot up to the call of updateSnapMapAndNotify:
\* partitions are the ones to prune, the others are kept
handleIndexPruneSnapshot(instId, partitions) ==
    /\ thr[MainT].pc = "idle"
    /\ budget > 0
    /\ budget' = budget - 1
    /\ LET cid == indexSnapMap[instId]
           snapshot == IF cid = 0 THEN NoSnap ELSE snapContainers[cid].snap
           kept == {p \in DOMAIN snapshot.partns : p \notin partitions}
           newSnapshot == deepCloneIndexSnapshot(snapshot, TRUE, kept)
           obs == [inst |-> instId, partitions |-> partitions, hadC |-> cid # 0,
                   flushing |-> \E w \in Workers : thr[w].pc # "idle",
                   snap |-> snapshot, snaps |-> snapshots, pending |-> cid # 0,
                   seq |-> budget]
       IN  /\ hist' = [hist EXCEPT !.prune = obs]
           /\ IF cid = 0
              THEN UNCHANGED <<snapshots, thr>>
              ELSE /\ snapshots' = deepCloneOpen(snapshots, newSnapshot)
                   /\ thr' = [thr EXCEPT ![MainT] =
                            [pc |-> "getSnapC", is |-> newSnapshot, snapC |-> 0,
                             wc |-> 0, seen |-> {}, late |-> FALSE]]
    /\ UNCHANGED <<indexInstMap, indexPartnMap, indexSnapMap, snapContainers,
                   waitersMap, waiterContainers, slices, muSnap, drains,
                   snapshotReqCh, replies, held, supvRespch, expired>>

\* handleIndexPruneSnapshot after updateSnapMapAndNotify has returned
handleIndexPruneSnapshot_done ==
    /\ thr[MainT].pc = "MsgSuccess"
    /\ hist.prune.pending
    /\ thr' = [thr EXCEPT ![MainT] = Idle]
    /\ hist' = [hist EXCEPT !.prune.pending = FALSE]
    /\ UNCHANGED <<indexInstMap, indexPartnMap, indexSnapMap, snapContainers,
                   waitersMap, waiterContainers, snapshots, slices, muSnap, drains,
                   snapshotReqCh, replies, held, supvRespch, expired, budget>>

\* the runs of the merge specification merge the proxy instance SrcInst into
\* the real instance TgtInst; the proxy has partitions, which the real
\* instance may have too
SrcInst == 1
TgtInst == 2
MergePartnMaps ==
    {pm \in [Insts -> SUBSET Partns] :
        /\ pm[SrcInst] # {}
        /\ pm[TgtInst] # Partns
        /\ \A i \in Insts \ {SrcInst, TgtInst} : pm[i] = {}}

InitMerge ==
    \E pm \in MergePartnMaps :
        NewStorageManager(pm, [s \in SliceIds |-> NoSlice], MaxMergeCmds)

NextMerge ==
    \/ \E m \in FlushInstMapUpdates : handleUpdateIndexInstMap(m, TRUE)
    \/ handleCreateSnapshot([v \in Vbs |-> 1], "INMEM_SNAP", FALSE, FALSE,
                            1..MaxSpecWorkers)
    \/ \E w \in Workers : createSnapshotWorker_done(w)
    \/ \E w \in Workers : createSnapshotForIndex_clone(w)
    \/ \E w \in Workers : createSnapshotForIndex_build(w, {})
    \/ \E w \in Workers : createSnapshotForIndex_deferred(w)
    \/ \E t \in Threads : updateSnapMapAndNotify_getSnapC(t)
    \/ \E t \in Threads : updateSnapMapAndNotify_install(t)
    \/ \E t \in Threads : notifySnapshotCreation(t)
    \/ \E t \in Threads : updateSnapMapAndNotify_getWc(t)
    \/ \E t \in Threads : updateSnapMapAndNotify_walk(t)
    \/ handleGetIndexSnapshot(TgtInst, ZeroTs, "any")
    \/ listenSnapshotReqs_recv
    \/ listenSnapshotReqs_check
    \/ \E P \in SUBSET Partns : handleIndexMergeSnapshot(SrcInst, TgtInst, P)
    \/ handleIndexMergeSnapshot_done

SpecMerge == InitMerge /\ [][NextMerge]_vars

\* --------------------------------------------------- prune specification
\* merges and prunes of the real instance, between flushes; the proxy has
\* one partition
PrunePartnMaps == {pm \in MergePartnMaps : pm[SrcInst] = {SrcInst}}

InitPrune ==
    \E pm \in PrunePartnMaps :
        NewStorageManager(pm, [s \in SliceIds |-> NoSlice], MaxMergeCmds)

NextPrune ==
    \/ \E m \in FlushInstMapUpdates : handleUpdateIndexInstMap(m, TRUE)
    \/ handleCreateSnapshot([v \in Vbs |-> 1], "INMEM_SNAP", FALSE, FALSE,
                            1..MaxSpecWorkers)
    \/ \E w \in Workers : createSnapshotWorker_done(w)
    \/ \E w \in Workers : createSnapshotForIndex_clone(w)
    \/ \E w \in Workers : createSnapshotForIndex_build(w, {})
    \/ \E w \in Workers : createSnapshotForIndex_deferred(w)
    \/ \E t \in Threads : updateSnapMapAndNotify_getSnapC(t)
    \/ \E t \in Threads : updateSnapMapAndNotify_install(t)
    \/ \E t \in Threads : notifySnapshotCreation(t)
    \/ \E t \in Threads : updateSnapMapAndNotify_getWc(t)
    \/ \E t \in Threads : updateSnapMapAndNotify_walk(t)
    \/ \E P \in SUBSET Partns : handleIndexMergeSnapshot(SrcInst, TgtInst, P)
    \/ handleIndexMergeSnapshot_done
    \/ \E P \in SUBSET Partns : handleIndexPruneSnapshot(TgtInst, P)
    \/ handleIndexPruneSnapshot_done

SpecPrune == InitPrune /\ [][NextPrune]_vars

\* ------------------------------------------------------------- properties
\* a flush is being handled by worker goroutine w
Busy(w) == thr[w].pc \notin {"idle", "deferredSent"}

\* the step in which the worker of a flush is done with it
Sends(w) == Busy(w) /\ ~Busy(w)'

\* a SnapshotDone reaches the supervisor only in such a step
OnlyWorkersAnswer ==
    (supvRespch' # supvRespch /\ supvRespch'[1].mType = "STORAGE_SNAP_DONE") =>
        \E w \in Workers : Sends(w)

\* every flush is eventually answered
FlushEventuallyAnswered == \A w \in Workers : Busy(w) ~> ~Busy(w)

C14_SnapDoneInFlushOrder ==
    [][\A w \in Workers : Sends(w) =>
            \A v \in Workers \ {w} : Busy(v) => thr[v].seq < thr[w].seq]_vars

\* worker w is inside createSnapshotForIndex for instance i: past the clone
\* of the previous snapshot, before the deferred wg.Done()
InPass(w, i) ==
    /\ thr[w].pc \in {"build", "getSnapC", "install", "notify", "getWc", "walk"}
    /\ thr[w].cur = i

\* the step in which handleRollback runs its loop over the instances
RollbackRuns ==
    /\ thr[MainT].pc = "idle"
    /\ budget' = budget - 1
    /\ hist'.rb.sid = budget

\* C15: a rollback is serialised with snapshot creation: the slices of an
\* instance are not rolled back (to a snapshot or to zero) while
\* createSnapshotForIndex is still running for that instance.
C15_RollbackNotDuringSnapshotCreation ==
    [][RollbackRuns =>
            \A w \in Workers, s \in hist'.rb.rolled \cup hist'.rb.zeroed :
                ~InPass(w, s[1])]_vars

\* C16: the timestamp of the current snapshot of every instance has
\* crc64 = hash(vbuuids).
C16_CurrentSnapshotCrc64IsHash ==
    \A i \in Insts : indexSnapMap[i] # 0 =>
        LET snap == snapContainers[indexSnapMap[i]].snap
        IN  snap # NoSnap => snap.crc64 = HashVbuuid(snap.vbuuids)

\* the step of createSnapshotForIndex in which NewSnapshot/OpenSnapshot of a
\* slice fails
BuildFails(w) == thr[w].pc = "build" /\ thr'[w] # thr[w] /\ hist'.buildFailed # hist.buildFailed

MergeStep ==
    /\ thr[MainT].pc = "idle"
    /\ hist'.merge # hist.merge
    /\ hist'.merge.source # NoSnap

\* the merge taken violates a precondition the spec lists: the source
\* timestamp is not >= the target's, a requested partition is missing from
\* the source, or source and target carry a same partition
ViolatesPrecondition(m) ==
    \/ m.hadC /\ ~EqualOrGreater(m.source.ts, m.target.ts)
    \/ ~(m.partitions \subseteq DOMAIN m.source.partns)
    \/ m.hadC /\ DOMAIN m.source.partns \cap DOMAIN m.target.partns # {}

\* one MsgError is the reply, and the step changes nothing else
MergeRefused ==
    /\ hist'.merge.cmdReplies = <<MsgError>>
    /\ UNCHANGED <<thr, snapContainers, indexSnapMap, snapshots, waiterContainers,
                   replies, held>>

C19_MergeSucceedsOnSuperset ==
    [][(/\ MergeStep
        /\ hist'.merge.hadC
        /\ hist'.merge.partitions # {}
        /\ ~ViolatesPrecondition(hist'.merge)) =>
            /\ hist'.merge.cmdReplies = <<>>
            /\ thr'[MainT].pc = "getSnapC"
            /\ thr'[MainT].is.instId = hist'.merge.tgt
            /\ DOMAIN thr'[MainT].is.partns =
                    DOMAIN hist'.merge.target.partns \cup hist'.merge.partitions]_vars

\* C20: when a merge has succeeded and its publication has returned (no
\* flush was running meanwhile), the target's current snapshot has the
\* target's pre-merge partitions plus the requested partitions of the
\* source, the source's container has the snapshot it had, and every clone
\* a scan holds has all its slice snapshots at refcount >= 1; whether or not
\* the target had a container before.
C20_MergedSnapshotOfTarget ==
    LET m == hist.merge
    IN  (thr[MainT].pc = "MsgSuccess" /\ ~m.flushing /\ ~ViolatesPrecondition(m)) =>
            /\ indexSnapMap[m.tgt] # 0
            /\ LET snap == snapContainers[indexSnapMap[m.tgt]].snap
               IN  /\ DOMAIN snap.partns = DOMAIN m.target.partns \cup m.partitions
                   /\ \A p \in m.partitions : snap.partns[p] = m.source.partns[p]
                   /\ \A p \in DOMAIN m.target.partns : snap.partns[p] = m.target.partns[p]
            /\ indexSnapMap[m.src] # 0
            /\ snapContainers[indexSnapMap[m.src]].snap = m.source
            /\ \A is \in DOMAIN held : Live(snapshots, is)

\* the publication of a prune has returned; no flush was running when the
\* prune was taken
PruneReturned ==
    /\ thr[MainT].pc = "MsgSuccess"
    /\ hist.prune.pending
    /\ ~hist.prune.flushing

\* the prune that has returned removes from the target what the merge taken
\* just before it, which met its preconditions and succeeded, had moved in
PruneUndoesMerge ==
    /\ PruneReturned
    /\ hist.prune.seq = hist.merge.seq - 1
    /\ hist.prune.inst = hist.merge.tgt
    /\ hist.prune.partitions = hist.merge.partitions
    /\ hist.merge.source # NoSnap
    /\ hist.merge.cmdReplies = <<MsgSuccess>>
    /\ ~hist.merge.flushing
    /\ ~ViolatesPrecondition(hist.merge)

\* C21: a merge of P into the target followed by a prune of P from the
\* target restores the target's pre-merge snapshot: same partitions, same
\* slice snapshots, same timestamp, same slice refcounts.
C21_PruneAfterMergeRestoresTarget ==
    PruneUndoesMerge =>
        /\ snapshots = hist.merge.snaps
        /\ IF hist.merge.hadC
           THEN /\ indexSnapMap[hist.merge.tgt] # 0
                /\ snapContainers[indexSnapMap[hist.merge.tgt]].snap = hist.merge.target
           ELSE indexSnapMap[hist.merge.tgt] = 0

\* a partition of the source was merged into a target that has a partition
\* of its own, and pruned again
C21_Witness ==
    /\ PruneUndoesMerge
    /\ hist.merge.hadC
    /\ hist.merge.partitions # {}
    /\ DOMAIN hist.merge.source.partns = hist.merge.partitions
    /\ DOMAIN hist.merge.target.partns # {}

\* the snapshot a prune has published, and its refcounts: each slice
\* snapshot kept has the refcount it had, each one dropped has lost the
\* container's reference
PrunePublished(kept) ==
    LET q == hist.prune
        snap == snapContainers[indexSnapMap[q.inst]].snap
    IN  /\ snap = [q.snap EXCEPT !.partns = [p \in kept |-> q.snap.partns[p]]]
        /\ \A p \in DOMAIN q.snap.partns :
                snapshots[q.snap.partns[p]].rc =
                    q.snaps[q.snap.partns[p]].rc - (IF p \in kept THEN 0 ELSE 1)

\* C22 as the spec states it: the snapshot a prune publishes has exactly the
\* partitions of the current one that are listed in the command; an empty
\* list gives a snapshot without partitions.
C22_PruneKeepsListed ==
    (PruneReturned /\ hist.prune.hadC) =>
        PrunePublished(DOMAIN hist.prune.snap.partns \cap hist.prune.partitions)

\* C22 as the code has it: the snapshot a prune publishes has exactly the
\* partitions of the current one that are NOT listed in the command; an
\* empty list keeps every partition; each kept slice snapshot has the
\* refcount it had and each dropped one has lost the container's reference.
C22_PruneDropsListed ==
    (PruneReturned /\ hist.prune.hadC) =>
        PrunePublished(DOMAIN hist.prune.snap.partns \ hist.prune.partitions)

\* a prune of a snapshot with two partitions has dropped one and kept one
C22_Witness ==
    /\ PruneReturned
    /\ hist.prune.hadC
    /\ DOMAIN hist.prune.snap.partns \cap hist.prune.partitions # {}
    /\ DOMAIN hist.prune.snap.partns \ hist.prune.partitions # {}

\* ------------------------------------------------------- scan planner
\* An index key as the planner handles it: MinIndexKey, MaxIndexKey, or a
\* secondary key, whose encoding is the sequence of the codes of its
\* elements (collatejson keeps the order of the elements and JoinArray
\* concatenates them).
MinIndexKey == [kind |-> "Min", bytes |-> <<>>]
MaxIndexKey == [kind |-> "Max", bytes |-> <<>>]
secondaryKey(b) == [kind |-> "key", bytes |-> b]

\* the IndexKey of a Scan field that is not set
NilIndexKey == [kind |-> "nil", bytes |-> <<>>]

\* a key of the request that is nil
NilKey == 0 - 1

\* the raw keys of a request
RawKeys == KeyVals \cup {NilKey}

\* ScanRequest.newKey, newLowKey, newHighKey
newKey(k) == secondaryKey(<<k>>)
\* newKey([]byte(""))
newKey0 == secondaryKey(<<>>)
newLowKey(k) == IF k = NilKey THEN MinIndexKey ELSE newKey(k)
newHighKey(k) == IF k = NilKey THEN MaxIndexKey ELSE newKey(k)

\* bytes.Compare
RECURSIVE bytesCompare(_, _)
bytesCompare(a, b) ==
    IF a = <<>> THEN (IF b = <<>> THEN 0 ELSE 0 - 1)
    ELSE IF b = <<>> THEN 1
    ELSE IF Head(a) < Head(b) THEN 0 - 1
    ELSE IF Head(a) > Head(b) THEN 1
    ELSE bytesCompare(Tail(a), Tail(b))

\* IndexKey.ComparePrefixIndexKey: the two keys compared over the length of
\* the shorter one; MinIndexKey is below and MaxIndexKey above every key
ComparePrefixIndexKey(a, b) ==
    IF a.kind = "Min" THEN 0 - 1
    ELSE IF a.kind = "Max" THEN 1
    ELSE LET n == IF Len(a.bytes) < Len(b.bytes) THEN Len(a.bytes) ELSE Len(b.bytes)
         IN  bytesCompare(SubSeq(a.bytes, 1, n), SubSeq(b.bytes, 1, n))

\* IndexKeyLessThan(a, b)
IndexKeyLessThan(a, b) ==
    IF a = MinIndexKey THEN TRUE
    ELSE IF a = MaxIndexKey THEN FALSE
    ELSE IF b = MinIndexKey THEN FALSE
    ELSE IF b = MaxIndexKey THEN TRUE
    ELSE bytesCompare(a.bytes, b.bytes) < 0

\* minlen(x, y)
minlen(x, y) == IF Len(x.Value.bytes) < Len(y.Value.bytes) THEN x ELSE y

\* IndexPointLessThan(x, y) with the inclusive key of two keys of different
\* lengths taken to be the shorter one whatever its type
IndexPointLessThanShorterFirst(x, y) ==
    LET a == x.Value
        b == y.Value
    IN  IF a = MinIndexKey THEN TRUE
        ELSE IF a = MaxIndexKey THEN FALSE
        ELSE IF b = MinIndexKey THEN FALSE
        ELSE IF b = MaxIndexKey THEN TRUE
        ELSE IF ComparePrefixIndexKey(a, b) < 0 THEN TRUE
        ELSE IF ComparePrefixIndexKey(a, b) = 0
             THEN IF Len(a.bytes) = Len(b.bytes)
                  THEN x.Type = "low" /\ y.Type = "high"
                  ELSE minlen(x, y) = x
        ELSE FALSE

\* IndexPointLessThan(x, y)
IndexPointLessThan(x, y) ==
    LET a == x.Value
        b == y.Value
    IN  IF a = MinIndexKey THEN TRUE
        ELSE IF a = MaxIndexKey THEN FALSE
        ELSE IF b = MinIndexKey THEN FALSE
        ELSE IF b = MaxIndexKey THEN TRUE
        ELSE IF ComparePrefixIndexKey(a, b) < 0 THEN TRUE
        ELSE IF ComparePrefixIndexKey(a, b) = 0
             THEN IF Len(a.bytes) = Len(b.bytes)
                  THEN x.Type = "low" /\ y.Type = "high"
                  ELSE LET inclusiveKey == minlen(x, y)
                       IN  \/ inclusiveKey.Type = "low" /\ inclusiveKey = x
                           \/ inclusiveKey.Type = "high" /\ inclusiveKey = y
        ELSE FALSE

\* jsonEncoder.ReverseCollate: the codes of the descending elements inverted
ReverseCollate(joined, desc) ==
    [i \in 1..Len(joined) |-> IF desc[i] THEN MaxKeyVal - joined[i] ELSE joined[i]]

\* codec.JoinArray over a list of keys
RECURSIVE JoinArray(_)
JoinArray(keys) ==
    IF keys = <<>> THEN <<>> ELSE Head(keys).bytes \o JoinArray(Tail(keys))

\* the keys of a list before the first MinIndexKey or MaxIndexKey
RECURSIVE pruneMinMax(_)
pruneMinMax(keys) ==
    IF keys = <<>> \/ Head(keys).kind # "key" THEN <<>>
    ELSE <<Head(keys)>> \o pruneMinMax(Tail(keys))

HasDescending(desc) == \E i \in DOMAIN desc : desc[i]

\* ScanRequest.fillFilterLowHigh: the Low and High of the filter of a list
\* of composite element filters
fillFilterLowHigh(compFilters, desc) ==
    LET n == Len(compFilters)
        lows == [i \in 1..n |-> compFilters[i].Low]
        highs == [i \in 1..n |-> compFilters[i].High]
    IN  IF ~HasDescending(desc)
        THEN [Low |-> IF compFilters[1].Low = MinIndexKey THEN MinIndexKey
                      ELSE secondaryKey(JoinArray(pruneMinMax(lows))),
              High |-> IF compFilters[1].High = MaxIndexKey THEN MaxIndexKey
                       ELSE secondaryKey(JoinArray(pruneMinMax(highs)))]
        ELSE LET lows2 == pruneMinMax([i \in 1..n |-> IF desc[i] THEN highs[i] ELSE lows[i]])
                 highs2 == pruneMinMax([i \in 1..n |-> IF desc[i] THEN lows[i] ELSE highs[i]])
             IN  [Low |-> IF Len(lows2) > 0
                          THEN secondaryKey(ReverseCollate(JoinArray(lows2), desc))
                          ELSE MinIndexKey,
                  High |-> IF Len(highs2) > 0
                           THEN secondaryKey(ReverseCollate(JoinArray(highs2), desc))
                           ELSE MaxIndexKey]

\* ScanRequest.fillFilterEquals
fillFilterEquals(protoScan, desc) ==
    LET equals == [i \in 1..Len(protoScan.Equals) |-> newKey(protoScan.Equals[i])]
        equalsKey == JoinArray(equals)
        eqKey == secondaryKey(IF ~HasDescending(desc) THEN equalsKey
                              ELSE ReverseCollate(equalsKey, desc))
    IN  [Low |-> eqKey, High |-> eqKey, Inclusion |-> "Both",
         CompositeFilters |->
            [i \in 1..Len(equals) |->
                [Low |-> equals[i], High |-> equals[i], Inclusion |-> "Both"]],
         ScanType |-> "LookupReq"]

\* ScanRequest.areFiltersNil
areFiltersNil(protoScan) ==
    \A i \in DOMAIN protoScan.Filters :
        protoScan.Filters[i].Low = NilKey /\ protoScan.Filters[i].High = NilKey

\* the composite element filters fillScans encodes for a scan
encodeFilters(protoScan) ==
    [i \in DOMAIN protoScan.Filters |->
        [Low |-> newLowKey(protoScan.Filters[i].Low),
         High |-> newHighKey(protoScan.Filters[i].High),
         Inclusion |-> protoScan.Filters[i].Inclusion]]

\* fillScans skips a scan with an element filter whose high is below its low
skipScan(protoScan) ==
    \E i \in DOMAIN protoScan.Filters :
        IndexKeyLessThan(newHighKey(protoScan.Filters[i].High),
                         newLowKey(protoScan.Filters[i].Low))

\* the filter fillScans builds for a scan it does not skip
filterOf(protoScan, desc) ==
    IF Len(protoScan.Equals) # 0 THEN fillFilterEquals(protoScan, desc)
    ELSE LET compFilters == encodeFilters(protoScan)
             lh == fillFilterLowHigh(compFilters, desc)
         IN  [Low |-> lh.Low, High |-> lh.High, Inclusion |-> "Both",
              CompositeFilters |-> compFilters, ScanType |-> "FilterRangeReq"]

\* the two points of filter number id
pointsOf(filter, id) ==
    <<[Value |-> filter.Low, FilterId |-> id, Type |-> "low"],
      [Value |-> filter.High, FilterId |-> id, Type |-> "high"]>>

\* the loop of fillScans over the scans of a secondary index: the filters
\* and the points collected, or all set when a scan without a bound has made
\* the request a ScanAll
RECURSIVE collectFilters(_, _, _, _)
collectFilters(protoScans, desc, filters, points) ==
    IF protoScans = <<>> THEN [all |-> FALSE, filters |-> filters, points |-> points]
    ELSE LET protoScan == Head(protoScans)
         IN  IF Len(protoScan.Equals) # 0
             THEN collectFilters(Tail(protoScans), desc,
                                 Append(filters, filterOf(protoScan, desc)),
                                 points \o pointsOf(filterOf(protoScan, desc), Len(filters) + 1))
             ELSE IF Len(protoScan.Filters) = 0 \/ areFiltersNil(protoScan)
             THEN [all |-> TRUE, filters |-> filters, points |-> points]
             ELSE IF skipScan(protoScan)
             THEN collectFilters(Tail(protoScans), desc, filters, points)
             ELSE collectFilters(Tail(protoScans), desc,
                                 Append(filters, filterOf(protoScan, desc)),
                                 points \o pointsOf(filterOf(protoScan, desc), Len(filters) + 1))

\* sort.Sort(IndexPoints(points)): the orders of the points in which no
\* point comes after one it is less than; the sort is not stable, and two
\* points each less than the other (two MinIndexKey) come in either order
RECURSIVE sortedPoints(_, _)
sortedPoints(points, S) ==
    IF S = {} THEN {<<>>}
    ELSE UNION {{<<points[m]>> \o rest : rest \in sortedPoints(points, S \ {m})} :
                m \in {m \in S : \A x \in S \ {m} :
                            IndexPointLessThan(points[x], points[m]) =>
                                IndexPointLessThan(points[m], points[x])}}

\* getScanAll
getScanAll ==
    [Low |-> NilIndexKey, High |-> NilIndexKey, Incl |-> "Both", ScanType |-> "AllReq",
     Filters |-> <<>>, Equals |-> NilIndexKey]

\* flipInclusion(incl, desc)
flipInclusion(incl, desc) ==
    IF Len(desc) # 0 /\ desc[1]
    THEN (IF incl = "Low" THEN "High" ELSE IF incl = "High" THEN "Low" ELSE incl)
    ELSE incl

\* the filters numbered in list, in its order
filtersIn(filters, list) == [i \in DOMAIN list |-> filters[list[i]]]

\* the scan composeScans ends at point p: the previous one extended when its
\* High equals the low of the region, a new one otherwise
closeRegion(scans, filters, filtersList, low, p) ==
    IF Len(scans) > 0 /\ ComparePrefixIndexKey(scans[Len(scans)].High, low) = 0
    THEN [scans EXCEPT ![Len(scans)] =
            [@ EXCEPT !.Filters = @ \o filtersIn(filters, filtersList),
                      !.High = p.Value]]
    ELSE Append(scans, [Low |-> low, High |-> p.Value, Incl |-> "Both",
                        ScanType |-> "FilterRangeReq",
                        Filters |-> filtersIn(filters, filtersList),
                        Equals |-> NilIndexKey])

\* the sweep of composeScans over the sorted points
RECURSIVE sweep(_, _, _, _, _, _)
sweep(points, filters, scans, filtersMap, filtersList, low) ==
    IF points = <<>> THEN scans
    ELSE LET p == Head(points)
             lo == IF filtersMap = {} THEN p.Value ELSE low
         IN  IF p.FilterId \in filtersMap
             THEN IF filtersMap \ {p.FilterId} = {}
                  THEN sweep(Tail(points), filters,
                             closeRegion(scans, filters, filtersList, lo, p),
                             {}, <<>>, lo)
                  ELSE sweep(Tail(points), filters, scans,
                             filtersMap \ {p.FilterId}, filtersList, lo)
             ELSE sweep(Tail(points), filters, scans,
                        filtersMap \cup {p.FilterId}, Append(filtersList, p.FilterId), lo)

\* the last loop of composeScans: a scan of one lookup filter is a lookup, a
\* scan of one filter of one element is a range
scanTypeOf(scan, desc) ==
    IF Len(scan.Filters) = 1 /\ scan.Filters[1].ScanType = "LookupReq"
    THEN [scan EXCEPT !.Equals = scan.Low, !.ScanType = "LookupReq"]
    ELSE IF Len(scan.Filters) = 1 /\ Len(scan.Filters[1].CompositeFilters) = 1
    THEN [scan EXCEPT !.Incl = flipInclusion(scan.Filters[1].CompositeFilters[1].Inclusion, desc),
                      !.ScanType = "RangeReq"]
    ELSE scan

\* ScanRequest.composeScans
composeScans(points, filters, desc) ==
    LET scans == sweep(points, filters, <<>>, {}, <<>>, MinIndexKey)
    IN  [i \in DOMAIN scans |-> scanTypeOf(scans[i], desc)]

\* ScanRequest.hasAllEqualFilters(keyPos): every filter of every scan has an
\* element filter for the position, with both keys, equal, and inclusion
\* Both, and there is at least one filter
hasAllEqualFilters(scans, keyPos) ==
    /\ \E i \in DOMAIN scans : scans[i].Filters # <<>>
    /\ \A i \in DOMAIN scans : \A j \in DOMAIN scans[i].Filters :
        LET filter == scans[i].Filters[j]
        IN  /\ Len(filter.CompositeFilters) > keyPos
            /\ filter.CompositeFilters[keyPos + 1].Low.kind = "key"
            /\ filter.CompositeFilters[keyPos + 1].High.kind = "key"
            /\ filter.CompositeFilters[keyPos + 1].Low.bytes =
                    filter.CompositeFilters[keyPos + 1].High.bytes
            /\ filter.CompositeFilters[keyPos + 1].Inclusion = "Both"

\* the inner loop of validateGroupAggr: prevPos moved up to keyPos - 1 over
\* the positions every filter pins
RECURSIVE skipEqualPositions(_, _, _)
skipEqualPositions(scans, prevPos, keyPos) ==
    IF prevPos < keyPos - 1 /\ hasAllEqualFilters(scans, prevPos + 1)
    THEN skipEqualPositions(scans, prevPos + 1, keyPos)
    ELSE prevPos

\* the loop of validateGroupAggr over the group keys, in the order of the
\* request: IsLeadingGroup
RECURSIVE leadingGroup(_, _, _)
leadingGroup(scans, group, prevPos) ==
    IF group = <<>> THEN TRUE
    ELSE LET KeyPos == Head(group)
         IN  IF KeyPos < 0 THEN FALSE
             ELSE IF KeyPos = 0 THEN leadingGroup(scans, Tail(group), KeyPos)
             ELSE IF KeyPos # prevPos + 1
                     /\ KeyPos # skipEqualPositions(scans, prevPos, KeyPos) + 1
             THEN FALSE
             ELSE leadingGroup(scans, Tail(group), KeyPos)

\* the goroutine that plans the request
ScanT == MainT

\* a scan request of a secondary index as it is received: the descending
\* bits of the index, the scans and the group keys of the request
NewScanRequest(desc, protoScans, group) ==
    [pc |-> "fillScans", Desc |-> desc, protoScans |-> protoScans, Group |-> group,
     Scans |-> <<>>, IsLeadingGroup |-> FALSE, isPrimary |-> FALSE]

\* a scan request of a primary index
NewPrimaryScanRequest(protoScans) ==
    [NewScanRequest([i \in 1..NumSecKeys |-> FALSE], protoScans, <<>>)
        EXCEPT !.isPrimary = TRUE]

\* primaryKey.CompareIndexKey and ComparePrefixIndexKey: document ids are
\* compared as a whole; MinIndexKey is below and MaxIndexKey above every key
CompareIndexKey(a, b) ==
    IF a.kind = "Min" THEN 0 - 1
    ELSE IF a.kind = "Max" THEN 1
    ELSE IF b.kind = "Min" THEN 1
    ELSE IF b.kind = "Max" THEN 0 - 1
    ELSE bytesCompare(a.bytes, b.bytes)

\* ScanRequest.getEmptyScan: the range from the empty key to itself
getEmptyScan ==
    [Low |-> newKey0, High |-> newKey0, Incl |-> "Neither", ScanType |-> "RangeReq",
     Filters |-> <<>>, Equals |-> NilIndexKey]

\* lowInclude, highInclude
lowInclude(lowInclusions) ==
    IF \E incl \in lowInclusions : incl \in {"Low", "Both"} THEN 1 ELSE 0
highInclude(highInclusions) ==
    IF \E incl \in highInclusions : incl \in {"High", "Both"} THEN 1 ELSE 0

\* inclusionMatrix[inclLow][inclHigh]
inclusionMatrix(inclLow, inclHigh) ==
    IF inclLow = 0 THEN (IF inclHigh = 0 THEN "Neither" ELSE "High")
    ELSE (IF inclHigh = 0 THEN "Low" ELSE "Both")

\* getNewScans of MergeFiltersForPrimary
getNewScans(scans, f) ==
    Append(scans, [Low |-> f.Low, High |-> f.High, Incl |-> f.Inclusion,
                   ScanType |-> "RangeReq", Filters |-> <<>>, Equals |-> NilIndexKey])

\* the last scan and the filter f2 merged into one scan
mergedScan(f1, f2) ==
    LET l1 == f1.Low
        h1 == f1.High
        i1 == f1.Incl
        l2 == f2.Low
        h2 == f2.High
        i2 == f2.Inclusion
        lowEq == CompareIndexKey(l1, l2) = 0
        highEq == CompareIndexKey(h1, h2) = 0
        low == IF lowEq \/ CompareIndexKey(l1, l2) < 0 THEN l1 ELSE l2
        inclLow == IF lowEq THEN lowInclude({i1, i2})
                   ELSE IF CompareIndexKey(l1, l2) < 0 THEN lowInclude({i1})
                   ELSE lowInclude({i2})
        high == IF highEq \/ CompareIndexKey(h1, h2) > 0 THEN h1 ELSE h2
        inclHigh == IF highEq THEN highInclude({i1, i2})
                    ELSE IF CompareIndexKey(h1, h2) > 0 THEN highInclude({i1})
                    ELSE highInclude({i2})
    IN  [f1 EXCEPT !.Low = low, !.High = high,
                   !.Incl = inclusionMatrix(inclLow, inclHigh)]

\* MergeFiltersForPrimary with a filter that touches the last scan merged
\* into it whatever the inclusions
MergeFiltersForPrimaryTouching(scans, f2) ==
    IF Len(scans) > 0
    THEN LET f1 == scans[Len(scans)]
         IN  IF CompareIndexKey(f2.Low, f1.High) > 0 THEN getNewScans(scans, f2)
             ELSE [scans EXCEPT ![Len(scans)] = mergedScan(f1, f2)]
    ELSE getNewScans(scans, f2)

\* MergeFiltersForPrimary(scans, f2)
MergeFiltersForPrimary(scans, f2) ==
    IF Len(scans) > 0
    THEN LET f1 == scans[Len(scans)]
         IN  IF CompareIndexKey(f2.Low, f1.High) > 0 THEN getNewScans(scans, f2)
             ELSE IF /\ CompareIndexKey(f1.High, f2.Low) = 0
                     /\ ~(f1.Incl \in {"High", "Both"} \/ f2.Inclusion \in {"Low", "Both"})
             THEN getNewScans(scans, f2)
             ELSE [scans EXCEPT ![Len(scans)] = mergedScan(f1, f2)]
    ELSE getNewScans(scans, f2)

\* FilterLessThan(x, y)
FilterLessThan(x, y) ==
    LET a == x.Low
        b == y.Low
    IN  IF a = MinIndexKey THEN TRUE
        ELSE IF a = MaxIndexKey THEN FALSE
        ELSE IF b = MinIndexKey THEN FALSE
        ELSE IF b = MaxIndexKey THEN TRUE
        ELSE CompareIndexKey(a, b) < 0

\* sort.Sort(Filters(filters)): the orders of the filters in which no filter
\* comes after one it is less than; the sort is not stable
RECURSIVE sortedFilters(_, _)
sortedFilters(filters, S) ==
    IF S = {} THEN {<<>>}
    ELSE UNION {{<<filters[m]>> \o rest : rest \in sortedFilters(filters, S \ {m})} :
                m \in {m \in S : \A x \in S \ {m} :
                            FilterLessThan(filters[x], filters[m]) =>
                                FilterLessThan(filters[m], filters[x])}}

\* the loop of fillScans over the scans of a primary index: the filters
\* collected and the empty scans added, or all set when a scan without a
\* bound has made the request a ScanAll
RECURSIVE collectPrimary(_, _, _)
collectPrimary(protoScans, filters, scans) ==
    IF protoScans = <<>> THEN [all |-> FALSE, filters |-> filters, scans |-> scans]
    ELSE LET protoScan == Head(protoScans)
         IN  IF Len(protoScan.Equals) # 0
             THEN collectPrimary(Tail(protoScans),
                    Append(filters, [Low |-> newKey(protoScan.Equals[1]),
                                     High |-> newKey(protoScan.Equals[1]),
                                     Inclusion |-> "Both"]), scans)
             ELSE IF Len(protoScan.Filters) = 0 \/ areFiltersNil(protoScan)
             THEN [all |-> TRUE, filters |-> filters, scans |-> scans]
             ELSE LET fl == protoScan.Filters[1]
                      l == newLowKey(fl.Low)
                      h == newHighKey(fl.High)
                  IN  IF IndexKeyLessThan(h, l)
                         \/ (CompareIndexKey(l, h) = 0 /\ fl.Inclusion # "Both")
                      THEN collectPrimary(Tail(protoScans), filters,
                                          Append(scans, getEmptyScan))
                      ELSE collectPrimary(Tail(protoScans),
                                Append(filters, [Low |-> l, High |-> h,
                                                 Inclusion |-> fl.Inclusion]), scans)

\* "for _, filter := range filters { scans = MergeFiltersForPrimary(scans, filter) }"
RECURSIVE mergeFilters(_, _)
mergeFilters(scans, filters) ==
    IF filters = <<>> THEN scans
    ELSE mergeFilters(MergeFiltersForPrimary(scans, Head(filters)), Tail(filters))

\* ScanRequest.fillScans for a primary and for a secondary index
fillScans(self) ==
    /\ thr[self].pc = "fillScans"
    /\ IF thr[self].isPrimary
       THEN \E c \in {collectPrimary(thr[self].protoScans, <<>>, <<>>)} :
            \E filters \in (IF c.all THEN {<<>>}
                            ELSE sortedFilters(c.filters, DOMAIN c.filters)) :
                thr' = [thr EXCEPT ![self] =
                            [@ EXCEPT !.pc = "fillGroupAggr",
                                      !.Scans = IF c.all THEN <<getScanAll>>
                                                ELSE mergeFilters(c.scans, filters)]]
       ELSE \E c \in {collectFilters(thr[self].protoScans, thr[self].Desc, <<>>, <<>>)} :
            \E points \in (IF c.all THEN {<<>>}
                           ELSE sortedPoints(c.points, DOMAIN c.points)) :
                thr' = [thr EXCEPT ![self] =
                            [@ EXCEPT !.pc = "fillGroupAggr",
                                      !.Scans = IF c.all THEN <<getScanAll>>
                                                ELSE composeScans(points, c.filters,
                                                                  thr[self].Desc)]]
    /\ UNCHANGED <<indexInstMap, indexPartnMap, indexSnapMap, snapContainers,
                   waitersMap, waiterContainers, snapshots, slices, muSnap, drains,
                   snapshotReqCh, replies, held, supvRespch, expired, budget, hist>>

\* ScanRequest.validateGroupAggr for a secondary index, called by
\* fillGroupAggr once the group keys are unmarshalled
validateGroupAggr(self) ==
    /\ thr[self].pc = "fillGroupAggr"
    /\ thr' = [thr EXCEPT ![self] =
                    [@ EXCEPT !.pc = "planned",
                              !.IsLeadingGroup =
                                    leadingGroup(thr[self].Scans, thr[self].Group, 0 - 1)]]
    /\ UNCHANGED <<indexInstMap, indexPartnMap, indexSnapMap, snapContainers,
                   waitersMap, waiterContainers, snapshots, slices, muSnap, drains,
                   snapshotReqCh, replies, held, supvRespch, expired, budget, hist>>

Inclusions == {"Neither", "Low", "High", "Both"}

\* the composite element filters of a request, with one of the inclusions
ElementFilters(incls) == [Low : RawKeys, High : RawKeys, Inclusion : incls]

\* a scan of a request: equals keys, or a list of element filters
EqualsScan(e) == [Equals |-> e, Filters |-> <<>>]
FilterScan(fl) == [Equals |-> <<>>, Filters |-> fl]

\* the lists of one to MaxScans of the scans of S
ScanLists(S) == UNION {[1..n -> S] : n \in 1..MaxScans}

\* the scans the planner is given: a scan without filters, equals keys for
\* one or both index keys, one element filter with any bounds and inclusion,
\* two element filters with any bounds
PlannerScans ==
    {EqualsScan(e) : e \in {<<>>} \cup UNION {[1..n -> KeyVals] : n \in 1..NumSecKeys}}
    \cup {FilterScan(<<f>>) : f \in ElementFilters(Inclusions)}
    \cup {FilterScan(<<f, g>>) : f \in ElementFilters({"Both"}), g \in ElementFilters({"Both"})}

\* the descending bits of an index of NumSecKeys keys
Descs == [1..NumSecKeys -> BOOLEAN]

InitRequest(descs, scanLists, groups) ==
    /\ indexInstMap = [i \in Insts |-> "NONE"]
    /\ indexPartnMap = [i \in Insts |-> {i}]
    /\ indexSnapMap = [i \in Insts |-> 0]
    /\ snapContainers = <<>>
    /\ waitersMap = [i \in Insts |-> 0]
    /\ waiterContainers = <<>>
    /\ snapshots = <<>>
    /\ slices = [s \in SliceIds |-> NoSlice]
    /\ \E desc \in descs, protoScans \in scanLists, group \in groups :
        thr = [t \in Threads |->
                IF t = ScanT THEN NewScanRequest(desc, protoScans, group) ELSE Idle]
    /\ muSnap = NoThread
    /\ drains = 0
    /\ snapshotReqCh = <<>>
    /\ replies = [r \in ReqIds |-> <<>>]
    /\ held = [x \in {} |-> 0]
    /\ supvRespch = <<>>
    /\ expired = {}
    /\ budget = 0
    /\ hist = InitHist

\* the planner on one or two scans of an index with any descending keys,
\* grouped by the leading key
InitScans == InitRequest(Descs, ScanLists(PlannerScans), {<<0>>})

NextScans ==
    \/ fillScans(ScanT)
    \/ validateGroupAggr(ScanT)

SpecScans == InitScans /\ [][NextScans]_vars

\* ------------------------------------------------ properties of the planner
\* the request has been planned
Planned == thr[ScanT].pc # "fillScans"

\* the entries an index of NumSecKeys keys can hold, and the encoding of an
\* entry in an index with descending keys
IndexEntries == [1..NumSecKeys -> KeyVals]
EntryKey(entry, desc) == secondaryKey(ReverseCollate(entry, desc))

\* the value v of a key lies in the bounds of an element filter of a request
InBounds(v, low, high, incl) ==
    /\ low = NilKey \/ low < v \/ (low = v /\ incl \in {"Low", "Both"})
    /\ high = NilKey \/ v < high \/ (high = v /\ incl \in {"High", "Both"})

\* an entry is asked for by a scan of the request
Requested(protoScan, entry) ==
    IF Len(protoScan.Equals) # 0
    THEN \A i \in DOMAIN protoScan.Equals : entry[i] = protoScan.Equals[i]
    ELSE \A i \in DOMAIN protoScan.Filters :
            InBounds(entry[i], protoScan.Filters[i].Low, protoScan.Filters[i].High,
                     protoScan.Filters[i].Inclusion)

\* an entry passes a filter attached to a scan of the plan
PassesFilter(filter, entry) ==
    \A i \in DOMAIN filter.CompositeFilters :
        LET cf == filter.CompositeFilters[i]
        IN  InBounds(entry[i],
                     IF cf.Low.kind = "key" THEN cf.Low.bytes[1] ELSE NilKey,
                     IF cf.High.kind = "key" THEN cf.High.bytes[1] ELSE NilKey,
                     cf.Inclusion)

\* a key lies in the range of a scan of the plan
InRange(scan, key) ==
    /\ \/ scan.Low = MinIndexKey
       \/ ComparePrefixIndexKey(scan.Low, key) < 0
       \/ ComparePrefixIndexKey(scan.Low, key) = 0 /\ scan.Incl \in {"Low", "Both"}
    /\ \/ scan.High = MaxIndexKey
       \/ ComparePrefixIndexKey(scan.High, key) > 0
       \/ ComparePrefixIndexKey(scan.High, key) = 0 /\ scan.Incl \in {"High", "Both"}

\* an entry is covered by a scan of the plan
Covered(scan, entry, desc) ==
    CASE scan.ScanType = "AllReq" -> TRUE
      [] scan.ScanType = "LookupReq" ->
            ComparePrefixIndexKey(scan.Equals, EntryKey(entry, desc)) = 0
      [] scan.ScanType = "RangeReq" -> InRange(scan, EntryKey(entry, desc))
      [] scan.ScanType = "FilterRangeReq" ->
            /\ InRange(scan, EntryKey(entry, desc))
            /\ \E j \in DOMAIN scan.Filters : PassesFilter(scan.Filters[j], entry)

\* the low key a comes before the low key b
LowBefore(a, b) ==
    /\ a # b
    /\ b # MinIndexKey
    /\ \/ a = MinIndexKey
       \/ ComparePrefixIndexKey(a, b) < 0
       \/ ComparePrefixIndexKey(a, b) = 0 /\ Len(a.bytes) < Len(b.bytes)

\* two filters of the request cover a common entry
Overlapping(r) ==
    \E e \in IndexEntries : \E i, j \in DOMAIN r.protoScans :
        i # j /\ Requested(r.protoScans[i], e) /\ Requested(r.protoScans[j], e)

\* C23: the scans the planner emits for the composite filters of a request
\* on a secondary index, whether they overlap, touch or nest, are ordered by
\* their low keys, no entry of the index is covered by two of them, and the
\* entries they cover are those the filters of the request ask for.
C23_ScansOrderedDisjointCovering ==
    Planned =>
        LET r == thr[ScanT]
        IN  /\ \A i, j \in DOMAIN r.Scans : i < j => LowBefore(r.Scans[i].Low, r.Scans[j].Low)
            /\ \A e \in IndexEntries : \A i, j \in DOMAIN r.Scans :
                    Covered(r.Scans[i], e, r.Desc) /\ Covered(r.Scans[j], e, r.Desc) => i = j
            /\ \A e \in IndexEntries :
                    (\E i \in DOMAIN r.Scans : Covered(r.Scans[i], e, r.Desc))
                    <=> (\E i \in DOMAIN r.protoScans : Requested(r.protoScans[i], e))

\* two filters on both keys of an index with a descending key that overlap
\* have been planned as one scan with both filters
C23_Witness ==
    /\ Planned
    /\ Overlapping(thr[ScanT])
    /\ HasDescending(thr[ScanT].Desc)
    /\ Len(thr[ScanT].Scans) = 1
    /\ thr[ScanT].Scans[1].ScanType = "FilterRangeReq"
    /\ Len(thr[ScanT].Scans[1].Filters) = 2
    /\ \A j \in 1..2 : Len(thr[ScanT].Scans[1].Filters[j].CompositeFilters) = 2

\* the element filters of the grouped requests: an equality, the same bounds
\* with inclusion Low, a range, another equality, no bound
GroupFilters ==
    {[Low |-> 0, High |-> 0, Inclusion |-> "Both"],
     [Low |-> 0, High |-> 0, Inclusion |-> "Low"],
     [Low |-> 0, High |-> 1, Inclusion |-> "Both"],
     [Low |-> 1, High |-> 1, Inclusion |-> "Both"],
     [Low |-> NilKey, High |-> NilKey, Inclusion |-> "Both"]}

\* the scans of the grouped requests
GroupScans ==
    {EqualsScan(<<>>), EqualsScan(<<0>>), EqualsScan(<<0, 1>>)}
    \cup {FilterScan(<<f>>) : f \in GroupFilters}
    \cup {FilterScan(<<f, g>>) : f \in GroupFilters, g \in GroupFilters}

\* the group keys of a request: up to MaxGroupKeys key positions of an index
\* of NumGroupKeys keys, in any order, -1 standing for an expression
GroupKeyLists == UNION {[1..n -> (0 - 1)..(NumGroupKeys - 1)] : n \in 0..MaxGroupKeys}

\* the planner on one or two scans of an index without descending keys,
\* grouped by up to MaxGroupKeys keys
InitGroupAggr ==
    InitRequest({[i \in 1..NumSecKeys |-> FALSE]}, ScanLists(GroupScans), GroupKeyLists)

SpecGroupAggr == InitGroupAggr /\ [][NextScans]_vars

\* validateGroupAggr has returned
Validated == thr[ScanT].pc = "planned"

\* the positions of the group keys of the request
GroupPositions(r) == {r.Group[i] : i \in DOMAIN r.Group}

\* the group keys, sorted by position, are a prefix of the index keys but
\* for positions that every filter of every scan pins to one value
LeadingWithPinnedGaps(r) ==
    /\ \A g \in GroupPositions(r) : g >= 0
    /\ \A g \in GroupPositions(r) : \A p \in 0..(g - 1) :
            p \in GroupPositions(r) \/ hasAllEqualFilters(r.Scans, p)

\* C24: IsLeadingGroup is true exactly when the group keys, sorted by key
\* position, are a prefix of the index keys, a position left out being
\* allowed only when every filter of every emitted scan pins it to a single
\* equality (low = high, inclusion Both), in whatever order the request
\* lists the group keys.
C24_LeadingGroupWhateverTheOrder ==
    Validated => (thr[ScanT].IsLeadingGroup <=> LeadingWithPinnedGaps(thr[ScanT]))

\* ------------------------------------------- validation of the restart ts
\* the number of calls of BucketFailoverLog that fail before one succeeds:
\* MAX_GETSEQS_RETRIES when every attempt fails
FlogFails == 0..MAX_GETSEQS_RETRIES

\* a store whose slices on disk are all in the same state, any one
InitRestartTs ==
    \E disk \in SliceStates :
        NewStorageManager([i \in Insts |-> Partns], [s \in SliceIds |-> disk], MaxRbCmds)

\* the rollback runs with a failover log that is fetched at any attempt, or
\* at none
NextRestartTs ==
    \/ \E m \in InstMapUpdates : handleUpdateIndexInstMap(m, TRUE)
    \/ \E ts \in RollbackTsSet, f \in FailSets, o \in Orders, z \in Orders :
            handleRollback(ts, f, o, z)
    \/ handleRollback_drain
    \/ updateIndexSnapMapForIndex_destroy
    \/ updateIndexSnapMapForIndex_open
    \/ \E n \in FlogFails : handleRollback_done(n)

SpecRestartTs == InitRestartTs /\ [][NextRestartTs]_vars

\* a rollback has validated its restart timestamp and sent RollbackDone
RestartTsValidated == hist.rb.done /\ ~hist.rb.err /\ hist.rb.sent # NoTs

\* C25: the failover log that validates restartTs is fetched at most 10
\* times, with a sleep of one second between two attempts, and the rollback
\* is answered; when every attempt has failed the RollbackDone sent to the
\* supervisor carries the UpstreamUnavailable error.
C25_FetchRetriedThenUpstreamUnavailable ==
    RestartTsValidated =>
        /\ hist.rb.attempts \in 1..MAX_GETSEQS_RETRIES
        /\ hist.rb.slept >= hist.rb.attempts - 1
        /\ hist.rb.msgs = 1
        /\ ~hist.rb.fetched => hist.rb.reply.err

\* ------------------------------------------------- the rule of new snapshots
\* the flusher has written a mutation to a slice of an active instance:
\* Slice.IsDirty() holds until the next committed snapshot of the slice
sliceInsert(s) ==
    /\ indexInstMap[s[1]] = "ACTIVE"
    /\ s[2] \in indexPartnMap[s[1]]
    /\ ~slices[s].dirty
    /\ slices' = [slices EXCEPT ![s].dirty = TRUE]
    /\ UNCHANGED <<indexInstMap, indexPartnMap, indexSnapMap, snapContainers,
                   waitersMap, waiterContainers, snapshots, thr, muSnap, drains,
                   snapshotReqCh, replies, held, supvRespch, expired, budget, hist>>

\* the FlushDone messages of the run: in-memory, disk and forced snapshots at
\* an earlier and at a later timestamp, and a flush that skips the snapshot
CommitMsgs ==
    [ts : {[v \in Vbs |-> 1], [v \in Vbs |-> MaxSeq]},
     stype : {"INMEM_SNAP", "DISK_SNAP", "FORCE_COMMIT"}]
    \cup {[ts |-> [v \in Vbs |-> 1], stype |-> "NO_SNAP"]}

\* the supervisor creates the first MaxLiveInsts instances
CommitInstMapUpdates ==
    {m \in FlushInstMapUpdates : \A i \in Insts \ LiveInsts : m[i] = "NONE"}

NextCommit ==
    \/ \E m \in CommitInstMapUpdates : handleUpdateIndexInstMap(m, TRUE)
    \/ \E s \in SliceIds : sliceInsert(s)
    \/ \E m \in CommitMsgs :
            handleCreateSnapshot(m.ts, m.stype, FALSE, FALSE, 1..MaxSpecWorkers)
    \/ \E w \in Workers : flushDone(w)
    \/ \E w \in Workers : createSnapshotWorker_done(w)
    \/ \E w \in Workers : createSnapshotForIndex_clone(w)
    \/ \E w \in Workers : createSnapshotForIndex_build(w, {})
    \/ \E w \in Workers : createSnapshotForIndex_deferred(w)
    \/ \E w \in Workers : updateSnapMapAndNotify_getSnapC(w)
    \/ \E w \in Workers : updateSnapMapAndNotify_install(w)
    \/ \E w \in Workers : notifySnapshotCreation(w)
    \/ \E w \in Workers : updateSnapMapAndNotify_getWc(w)
    \/ \E w \in Workers : updateSnapMapAndNotify_walk(w)

\* every instance has one partition, nothing is on disk
InitCommit ==
    NewStorageManager([i \in Insts |-> {i}], [s \in SliceIds |-> NoSlice], MaxCmds)

SpecCommit == InitCommit /\ [][NextCommit]_vars

\* the step of worker w in which createSnapshotForIndex has gone through the
\* slices of an instance
BuildStep(w) == thr[w].pc = "build" /\ thr'[w].pc = "getSnapC"

\* the slice of partition p has got a new storage snapshot in this step
NewlySnapshotted(w, p) ==
    /\ thr'[w].is.partns[p] \notin DOMAIN snapshots
    /\ snapshots'[thr'[w].is.partns[p]] = [rc |-> 1, ts |-> thr[w].ts]
    /\ \A k \in DOMAIN snapshots : snapshots'[k] = snapshots[k]

\* the index snapshot has got the prior snapshot of the slice of partition p,
\* whose refcount is one higher
PriorReused(w, p) ==
    LET prior == LatestSnapshot(thr[w].last, p)
    IN  /\ prior # 0
        /\ thr'[w].is.partns[p] = prior
        /\ snapshots' = [snapshots EXCEPT ![prior].rc = @ + 1]

\* the flush of worker w is at seqnos greater than those of the prior
\* snapshot of the slice of partition p
FlushIsNewer(w, p) ==
    GreaterThan(thr[w].ts, snapshots[LatestSnapshot(thr[w].last, p)].ts)

\* C27 as the spec states it: a slice gets a new storage snapshot exactly
\* when it has no prior one, or the flush is a disk one at greater seqnos and
\* the slice is dirty, or the flush forces the commit; otherwise the prior
\* snapshot is reused with its refcount one higher.
C27_NewSnapshotWhenDirtyDiskFlush ==
    [][\A w \in Workers : BuildStep(w) =>
        \A p \in indexPartnMap[thr[w].cur] :
            IF \/ LatestSnapshot(thr[w].last, p) = 0
               \/ /\ thr[w].stype \in {"DISK_SNAP", "DISK_SNAP_OSO"}
                  /\ FlushIsNewer(w, p)
                  /\ slices[<<thr[w].cur, p>>].dirty
               \/ thr[w].stype \in {"FORCE_COMMIT", "FORCE_COMMIT_MERGE"}
            THEN NewlySnapshotted(w, p)
            ELSE PriorReused(w, p)]_vars

\* C27 as the code has it: a slice gets a new storage snapshot exactly when
\* it has no prior one, or the flush is at greater seqnos and the slice is
\* dirty or the flush is a disk one, or the flush forces the commit;
\* otherwise the prior snapshot is reused with its refcount one higher.
C27_NewSnapshotWhenDirtyOrDiskFlush ==
    [][\A w \in Workers : BuildStep(w) =>
        \A p \in indexPartnMap[thr[w].cur] :
            IF \/ LatestSnapshot(thr[w].last, p) = 0
               \/ /\ \/ thr[w].stype \in {"DISK_SNAP", "DISK_SNAP_OSO"}
                     \/ slices[<<thr[w].cur, p>>].dirty
                  /\ FlushIsNewer(w, p)
               \/ thr[w].stype \in {"FORCE_COMMIT", "FORCE_COMMIT_MERGE"}
            THEN NewlySnapshotted(w, p)
            ELSE PriorReused(w, p)]_vars

\* an in-memory flush at greater seqnos has given a dirty slice that had a
\* snapshot a new one
C27_Witness ==
    \E w \in Workers : \E p \in Partns :
        /\ thr[w].pc = "getSnapC"
        /\ thr[w].stype = "INMEM_SNAP"
        /\ LatestSnapshot(thr[w].last, p) # 0
        /\ p \in DOMAIN thr[w].is.partns
        /\ thr[w].is.partns[p] # LatestSnapshot(thr[w].last, p)
        /\ slices[<<thr[w].cur, p>>].dirty

\* --------------------------------------------------- the walk of the waiters
\* the scans of the run: MaxWaiters requests can be outstanding
InitWalk ==
    /\ indexInstMap = [i \in Insts |-> "NONE"]
    /\ indexPartnMap = [i \in Insts |-> {i}]
    /\ indexSnapMap = [i \in Insts |-> 0]
    /\ snapContainers = <<>>
    /\ waitersMap = [i \in Insts |-> 0]
    /\ waiterContainers = <<>>
    /\ snapshots = <<>>
    /\ slices = [s \in SliceIds |-> NoSlice]
    /\ thr = [t \in Threads |-> Idle]
    /\ muSnap = NoThread
    /\ drains = 0
    /\ snapshotReqCh = <<>>
    /\ replies = [r \in 1..MaxWaiters |-> <<>>]
    /\ held = [x \in {} |-> 0]
    /\ supvRespch = <<>>
    /\ expired = {}
    /\ budget = MaxWalkCmds
    /\ hist = InitHist

\* the instance map the supervisor sends: the first instance is created
WalkInstMap == [i \in Insts |-> IF i \in LiveInsts THEN "ACTIVE" ELSE "NONE"]

NextWalk ==
    \/ indexInstMap # WalkInstMap /\ handleUpdateIndexInstMap(WalkInstMap, TRUE)
    \/ \E ts \in UniformTs :
            handleCreateSnapshot(ts, "INMEM_SNAP", FALSE, FALSE, 1..MaxSpecWorkers)
    \/ \E w \in Workers : createSnapshotWorker_done(w)
    \/ \E w \in Workers : createSnapshotForIndex_clone(w)
    \/ \E w \in Workers : createSnapshotForIndex_build(w, {})
    \/ \E w \in Workers : createSnapshotForIndex_deferred(w)
    \/ \E w \in Workers : updateSnapMapAndNotify_getSnapC(w)
    \/ \E w \in Workers : updateSnapMapAndNotify_install(w)
    \/ \E w \in Workers : notifySnapshotCreation(w)
    \/ \E w \in Workers : updateSnapMapAndNotify_getWc(w)
    \/ \E w \in Workers : updateSnapMapAndNotify_walk(w)
    \/ \E i \in LiveInsts : \E ts \in UniformTs : handleGetIndexSnapshot(i, ts, "query")
    \/ listenSnapshotReqs_recv
    \/ listenSnapshotReqs_check
    \/ listenSnapshotReqs_getWc
    \/ listenSnapshotReqs_append
    \/ \E r \in DOMAIN replies : DeadlinePasses(r)

SpecWalk == InitWalk /\ [][NextWalk]_vars

\* the step in which worker w walks the waiter list of the instance it has
\* published a snapshot for
WalkStep(w) == thr[w].pc = "walk" /\ thr'[w].pc # "walk"

\* the positions of ws whose waiter is in the set of ids
PositionsOf(ws, ids) == {k \in DOMAIN ws : ws[k].id \in ids}

\* ws2 holds the waiters of ws with an id in ids, in the order of ws
SameOrderSublist(ws2, ws, ids) ==
    /\ Len(ws2) = Cardinality(PositionsOf(ws, ids))
    /\ \A k \in DOMAIN ws2 :
            \E j \in PositionsOf(ws, ids) :
                /\ ws2[k] = ws[j]
                /\ Cardinality({m \in PositionsOf(ws, ids) : m < j}) = k - 1

\* C28: the publish walk of a waiter list gives every waiter whose deadline
\* has passed ScanTimedOut (also one the snapshot satisfies), gives every
\* other waiter the snapshot satisfies the snapshot, leaves on the list
\* exactly the waiters that are neither, in their original order, gives
\* every removed waiter one reply and takes one off the waiter count for each.
C28_WalkRepliesOnceAndKeepsTheRest ==
    [][\A w \in Workers : WalkStep(w) =>
        LET ws == waiterContainers[thr[w].wc]
            is == thr[w].is
            late == IdsOf(ws) \cap expired
            served == {ws[k].id : k \in {j \in DOMAIN ws :
                        /\ ws[j].id \notin expired
                        /\ isSnapshotConsistent(is, ws[j].cons, ws[j].ts)}}
            rest == IdsOf(ws) \ (late \cup served)
        IN  /\ \A r \in late :
                    replies'[r] = Append(replies[r], ErrReply("ErrScanTimedOut"))
            /\ \A r \in served : replies'[r] = Append(replies[r], SnapReply(is))
            /\ \A r \in DOMAIN replies \ (late \cup served) : replies'[r] = replies[r]
            /\ SameOrderSublist(waiterContainers'[thr[w].wc], ws, rest)
            /\ hist'.numSnapshotWaiters[is.instId] =
                    hist.numSnapshotWaiters[is.instId] - Cardinality(late \cup served)
            /\ \A i \in Insts \ {is.instId} :
                    hist'.numSnapshotWaiters[i] = hist.numSnapshotWaiters[i]]_vars

\* a walk has timed the first waiter out though a snapshot it asked for was
\* there, served the second, and kept two later ones in their order
C28_Witness ==
    \E c \in DOMAIN waiterContainers :
        LET ws == waiterContainers[c]
        IN  /\ Len(ws) = 2
            /\ ws[1].id < ws[2].id
            /\ \E r \in DOMAIN replies : \E q \in DOMAIN replies :
                    /\ r < ws[1].id /\ q < ws[1].id
                    /\ replies[r] = <<ErrReply("ErrScanTimedOut")>>
                    /\ \E x \in hist.taken :
                        /\ x.id = r
                        /\ indexSnapMap[x.inst] # 0
                        /\ isSnapshotConsistent(
                                snapContainers[indexSnapMap[x.inst]].snap, x.cons, x.ts)
                    /\ Len(replies[q]) = 1
                    /\ replies[q][1].kind = "snapshot"
                    /\ q \in {x.id : x \in hist.taken}
            /\ hist.numSnapshotWaiters[ws[1].inst] = 2
            /\ thr[LsnT].pc = "idle"

\* ------------------------------------------- the snapshot a rollback picks
\* the step of handleRollback in which the slices are rolled back and no
\* Slice call fails
RollbackStep == thr[MainT].pc = "idle" /\ thr'[MainT].pc = "updateIndexSnapMap"

\* the snapshot infos of a slice that are not ahead of ts on any vbucket
NotAhead(sl, ts) == {k \in DOMAIN sl.infos : AsRecentTs(ts, sl.infos[k].ts)}

\* no snapshot info of the slice is an OSO one
NoOso(sl) == \A k \in DOMAIN sl.infos : ~sl.infos[k].oso

\* the slice was rolled back to its info k: the newer infos are gone
RolledBackTo(s, k) ==
    /\ s \in hist'.rb.rolled
    /\ slices'[s].infos = SubSeq(slices[s].infos, k, Len(slices[s].infos))

\* the slice has a snapshot a rollback to ts can use
HasRollbackSnapshot(sl, ts) == NoOso(sl) /\ NotAhead(sl, ts) # {}

\* C29: for a rollbackTs with no zero seqno, RollbackToZero is called only
\* when some slice of the matching instances has no snapshot info that is
\* not ahead of rollbackTs on any vbucket (or has an OSO one); otherwise
\* each slice is rolled back with Slice.Rollback to the newest such info of
\* its own, and the restartTs is the timestamp of one of the chosen infos,
\* the minimum of them: not ahead of the chosen info of any slice.
C29_RolledBackToNewestNotAhead ==
    [][(RollbackStep /\ ~HasZeroSeqNum(hist'.rb.ts) /\ MatchingSlices # {}) =>
        LET ts == hist'.rb.ts
            pick(s) == MinOf(NotAhead(slices[s], ts))
        IN  IF \A s \in MatchingSlices : HasRollbackSnapshot(slices[s], ts)
            THEN /\ hist'.rb.zeroed = {}
                 /\ \A s \in MatchingSlices : RolledBackTo(s, pick(s))
                 /\ \E s \in MatchingSlices :
                        thr'[MainT].restartTs = slices[s].infos[pick(s)].ts
                 /\ \A s \in MatchingSlices :
                        AsRecentTs(slices[s].infos[pick(s)].ts, thr'[MainT].restartTs)
            ELSE thr'[MainT].restartTs = NoTs]_vars

\* the positions of the snapshot infos of the slice that come after the one
\* at its LastRollbackTs (newest first, so they are older)
OlderThanUsed(sl) ==
    {k \in DOMAIN sl.infos :
        \E j \in DOMAIN sl.infos : j < k /\ sl.infos[j].ts = sl.lastRollbackTs}

\* the snapshot info a rollback with a zero seqno takes for the slice: the
\* latest when LastRollbackTs is unset, else the one right after the used
\* one (0: none)
ZeroSeqnoPick(sl) ==
    IF ~NoOso(sl) \/ sl.infos = <<>> THEN 0
    ELSE IF sl.lastRollbackTs = NoTs THEN 1
    ELSE IF OlderThanUsed(sl) = {} THEN 0
    ELSE MinOf(OlderThanUsed(sl))

\* C30: for a rollbackTs with a zero seqno, a slice is rolled back to its
\* latest snapshot info when its LastRollbackTs is unset and to the one
\* immediately older than the info at LastRollbackTs when it is set; when
\* there is no such info the rollback goes to zero. After Slice.Rollback the
\* slice's LastRollbackTs is the timestamp of the chosen info, after
\* RollbackToZero it is nil.
C30_ZeroSeqnoTakesNextOlderSnapshot ==
    [][(RollbackStep /\ HasZeroSeqNum(hist'.rb.ts)) =>
        /\ IF \A s \in MatchingSlices : ZeroSeqnoPick(slices[s]) # 0
           THEN /\ hist'.rb.zeroed = {}
                /\ \A s \in MatchingSlices :
                    /\ RolledBackTo(s, ZeroSeqnoPick(slices[s]))
                    /\ slices'[s].lastRollbackTs =
                            slices[s].infos[ZeroSeqnoPick(slices[s])].ts
           ELSE hist'.rb.zeroed = MatchingSlices
        /\ \A s \in hist'.rb.zeroed :
            /\ slices'[s].infos = <<>>
            /\ slices'[s].lastRollbackTs = NoTs]_vars

\* a rollback with a zero seqno has taken a slice whose latest snapshot was
\* used by the rollback before to the next older one
C30_Witness ==
    /\ hist.rb.ts # NoTs
    /\ HasZeroSeqNum(hist.rb.ts)
    /\ ~hist.rb.err
    /\ hist.rb.zeroed = {}
    /\ \E s \in hist.rb.rolled \cap hist.rb.used :
        /\ slices[s].infos # <<>>
        /\ slices[s].lastRollbackTs = slices[s].infos[1].ts
    /\ thr[MainT].pc = "updateIndexSnapMap"

\* ------------------------------------- aborted flushes and stream begins
\* the slices as the process finds them: empty, or rolled back to a disk
\* snapshot that a rollback with a zero seqno has marked as used
AbortSliceStates ==
    {NoSlice,
     [infos |-> <<[ts |-> [v \in Vbs |-> 1], oso |-> FALSE]>>, dirty |-> FALSE,
      lastRollbackTs |-> [v \in Vbs |-> 1]]}

\* every instance is partitioned over all the partitions
InitAbort ==
    \E disk \in AbortSliceStates :
        NewStorageManager([i \in Insts |-> Partns], [s \in SliceIds |-> disk],
                          MaxAbortCmds)

\* the FlushDone messages of the run: skipped, in-memory and disk snapshots,
\* aborted or not, with or without all stream begins seen
AbortMsgs ==
    [ts : {[v \in Vbs |-> MaxSeq]}, stype : {"NO_SNAP", "INMEM_SNAP", "DISK_SNAP"},
     aborted : BOOLEAN, hasAllSB : BOOLEAN]

NextAbort ==
    \/ \E m \in FlushInstMapUpdates : handleUpdateIndexInstMap(m, TRUE)
    \/ \E m \in AbortMsgs :
            handleCreateSnapshot(m.ts, m.stype, m.aborted, m.hasAllSB,
                                 1..MaxSpecWorkers)
    \/ \E w \in Workers : flushDone(w)
    \/ \E w \in Workers : createSnapshotWorker_done(w)
    \/ \E w \in Workers : createSnapshotForIndex_clone(w)
    \/ \E w \in Workers : createSnapshotForIndex_build(w, {})
    \/ \E w \in Workers : createSnapshotForIndex_deferred(w)
    \/ \E w \in Workers : updateSnapMapAndNotify_getSnapC(w)
    \/ \E w \in Workers : updateSnapMapAndNotify_install(w)
    \/ \E w \in Workers : notifySnapshotCreation(w)
    \/ \E w \in Workers : updateSnapMapAndNotify_getWc(w)
    \/ \E w \in Workers : updateSnapMapAndNotify_walk(w)

SpecAbort == InitAbort /\ [][NextAbort]_vars

\* the step in which createSnapshotForIndex of an aborted flush goes to the
\* slices of an instance and returns
AbortedBuildStep(w) ==
    thr[w].pc = "build" /\ thr[w].aborted /\ thr'[w].pc = "deferred"

\* the slices of an instance
SlicesOf(inst) == {s \in SliceIds : s[1] = inst /\ s[2] \in indexPartnMap[inst]}

\* C31: an aborted flush touches the dirty bit (Slice.IsDirty) of every
\* slice of every matching instance, creates no storage snapshot and leaves
\* every container's snapshot, every refcount and every waiter list as
\* they were.
C31_AbortedFlushTouchesEverySlice ==
    [][\A w \in Workers : AbortedBuildStep(w) =>
        /\ thr'[w].isDirtyCalls = SlicesOf(thr[w].cur)
        /\ snapshots' = snapshots
        /\ snapContainers' = snapContainers
        /\ waiterContainers' = waiterContainers]_vars

\* the step in which the flush of worker w is reported done to the supervisor
FlushReported(w) ==
    /\ thr[w].pc \in {"flushDone", "next", "deferred"}
    /\ thr'[w].pc \in {"idle", "deferredSent"}

\* C32: once a FlushDone with allStreamBeginsSeen has been processed,
\* LastRollbackTs is nil on every slice of every non-deleted instance of
\* the stream/keyspace, for every snapshot type, aborted or not.
C32_AllStreamBeginsClearLastRollbackTs ==
    [][\A w \in Workers : (FlushReported(w) /\ thr[w].hasAllSB) =>
        \A i \in Insts : thr[w].instMap[i] = "ACTIVE" =>
            \A s \in SlicesOf(i) : slices'[s].lastRollbackTs = NoTs]_vars

-----------------------------------------------------------------------------
\* Locks held across channel sends

\* C33: no lock other than a waiter container's lock is held while its holder
\* sends on the notification channel, a scan reply channel or the supervisor
\* channel: every send made under a lock holds the waiter container's lock only
C33_OnlyWaiterLockHeldAcrossSends ==
    \A x \in hist.lockedSends : x.locks = {"wc"}

-----------------------------------------------------------------------------
\* Copy-on-write maps: the instance map is updated with and without the
\* manager while scans ask for snapshots

InitMaps ==
    NewStorageManager([i \in Insts |-> {i}], [s \in SliceIds |-> NoSlice], MaxMapCmds)

NextMaps ==
    \/ \E m \in InstMapUpdates, enableManager \in BOOLEAN :
            handleUpdateIndexInstMap(m, enableManager)
    \/ \E i \in Insts, c \in {"any", "query"} :
            handleGetIndexSnapshot(i, [v \in Vbs |-> 1], c)
    \/ listenSnapshotReqs_recv
    \/ listenSnapshotReqs_check
    \/ listenSnapshotReqs_getWc
    \/ listenSnapshotReqs_append

SpecMaps == InitMaps /\ [][NextMaps]_vars

\* C34: once a map value has been published, no operation writes it in
\* place: no entry of the published instance map, snapshot map or waiter
\* map is rewritten after the Set that published it.
C34_PublishedMapsNeverWrittenInPlace ==
    hist.inPlace = {}

-----------------------------------------------------------------------------
\* The planner on a primary index

\* the document ids of the index, and those the bounds of a request are
\* taken from: between two bounds there is a document id, and one below the
\* lowest and one above the highest
DocIds == 0..MaxDocId
DocBounds == {d \in DocIds : d % 2 = 1}

\* the scans of a request on a primary index: a scan without filters, an
\* equality, a range with any bounds (nil or a document id) and inclusion
PrimaryScans ==
    {FilterScan(<<>>)}
    \cup {EqualsScan(<<k>>) : k \in DocBounds}
    \cup {FilterScan(<<f>>) : f \in [Low : DocBounds \cup {NilKey},
                                     High : DocBounds \cup {NilKey},
                                     Inclusion : Inclusions]}

InitPrimary ==
    /\ indexInstMap = [i \in Insts |-> "NONE"]
    /\ indexPartnMap = [i \in Insts |-> {i}]
    /\ indexSnapMap = [i \in Insts |-> 0]
    /\ snapContainers = <<>>
    /\ waitersMap = [i \in Insts |-> 0]
    /\ waiterContainers = <<>>
    /\ snapshots = <<>>
    /\ slices = [s \in SliceIds |-> NoSlice]
    /\ \E protoScans \in UNION {[1..n -> PrimaryScans] : n \in 1..MaxPrimaryScans} :
        thr = [t \in Threads |->
                IF t = ScanT THEN NewPrimaryScanRequest(protoScans) ELSE Idle]
    /\ muSnap = NoThread
    /\ drains = 0
    /\ snapshotReqCh = <<>>
    /\ replies = [r \in ReqIds |-> <<>>]
    /\ held = [x \in {} |-> 0]
    /\ supvRespch = <<>>
    /\ expired = {}
    /\ budget = 0
    /\ hist = InitHist

NextPrimary == fillScans(ScanT)

SpecPrimary == InitPrimary /\ [][NextPrimary]_vars

\* a document id is asked for by a scan of the request
RequestedPrimary(protoScan, d) ==
    IF Len(protoScan.Equals) # 0 THEN d = protoScan.Equals[1]
    ELSE IF Len(protoScan.Filters) = 0 THEN TRUE
    ELSE InBounds(d, protoScan.Filters[1].Low, protoScan.Filters[1].High,
                  protoScan.Filters[1].Inclusion)

\* a document id lies in a range of the plan
CoveredPrimary(scan, d) ==
    \/ scan.ScanType = "AllReq"
    \/ /\ \/ CompareIndexKey(scan.Low, newKey(d)) < 0
           \/ (CompareIndexKey(scan.Low, newKey(d)) = 0 /\ scan.Incl \in {"Low", "Both"})
       /\ \/ CompareIndexKey(scan.High, newKey(d)) > 0
           \/ (CompareIndexKey(scan.High, newKey(d)) = 0 /\ scan.Incl \in {"High", "Both"})

\* C35: for a primary index the ranges the planner emits for the range and
\* equality filters of a request are sorted by low, no document id lies in
\* two of them, and the document ids they cover are those of the union of
\* the ranges of the request: an endpoint shared by merged ranges is covered
\* iff one of them includes it, and two ranges that touch at an endpoint
\* neither includes leave that endpoint out.
C35_PrimaryRangesSortedDisjointExact ==
    (Planned /\ thr[ScanT].isPrimary) =>
        LET r == thr[ScanT]
        IN  /\ \A i, j \in DOMAIN r.Scans :
                    i < j => CompareIndexKey(r.Scans[i].Low, r.Scans[j].Low) <= 0
            /\ \A d \in DocIds : \A i, j \in DOMAIN r.Scans :
                    CoveredPrimary(r.Scans[i], d) /\ CoveredPrimary(r.Scans[j], d) => i = j
            /\ \A d \in DocIds :
                    (\E i \in DOMAIN r.Scans : CoveredPrimary(r.Scans[i], d))
                    <=> (\E i \in DOMAIN r.protoScans : RequestedPrimary(r.protoScans[i], d))

\* C35, amended: the same for the ranges of the plan other than the empty
\* scans that stand for the empty ranges of the request, which come first
C35_NonEmptyRangesSortedDisjointExact ==
    (Planned /\ thr[ScanT].isPrimary) =>
        LET r == thr[ScanT]
        IN  /\ \A i, j \in DOMAIN r.Scans :
                    (i < j /\ r.Scans[i] # getEmptyScan /\ r.Scans[j] # getEmptyScan)
                        => CompareIndexKey(r.Scans[i].Low, r.Scans[j].Low) <= 0
            /\ \A i, j \in DOMAIN r.Scans :
                    (i < j /\ r.Scans[j] = getEmptyScan) => r.Scans[i] = getEmptyScan
            /\ \A d \in DocIds : \A i, j \in DOMAIN r.Scans :
                    CoveredPrimary(r.Scans[i], d) /\ CoveredPrimary(r.Scans[j], d) => i = j
            /\ \A d \in DocIds :
                    (\E i \in DOMAIN r.Scans : CoveredPrimary(r.Scans[i], d))
                    <=> (\E i \in DOMAIN r.protoScans : RequestedPrimary(r.protoScans[i], d))

\* three ranges of which two were merged on a shared endpoint one of them
\* includes, and the third touches the merged range at an endpoint neither
\* includes and is kept apart
C35_Witness ==
    /\ Planned
    /\ thr[ScanT].isPrimary
    /\ Len(thr[ScanT].protoScans) = 3
    /\ \A i \in 1..3 : \E d \in DocIds : RequestedPrimary(thr[ScanT].protoScans[i], d)
    /\ Len(thr[ScanT].Scans) = 2
    /\ thr[ScanT].Scans[1].High = thr[ScanT].Scans[2].Low
    /\ thr[ScanT].Scans[1].Incl = "Low"
    /\ thr[ScanT].Scans[2].Incl = "High"
    /\ \A i \in 1..3 : (/\ Len(thr[ScanT].protoScans[i].Filters) = 1
                         /\ thr[ScanT].protoScans[i].Filters[1].Inclusion # "Neither")

-----------------------------------------------------------------------------
\* Requests lost or answered twice

\* the step in which listenSnapshotReqs appends the waiter of a request
AppendStep == thr[LsnT].pc = "lsnAppend" /\ thr'[LsnT].pc = "idle"

\* C36: no snapshot request is lost or answered twice: no reply channel is
\* sent more than one reply, and no waiter is appended to the waiter
\* container of an instance after the deletion of the instance has drained
\* the container.
C36_NoRequestLostOrAnsweredTwice ==
    /\ [](\A r \in DOMAIN replies : Len(replies[r]) <= 1)
    /\ [][AppendStep => indexInstMap[thr[LsnT].req.inst] = "ACTIVE"]_vars

-----------------------------------------------------------------------------
\* The current snapshot of a container

\* C37: absent rollback, every snapshot installed into a container, by a
\* flush pass, a merge or a prune, has on every vbucket a seqno at least
\* that of the snapshot it replaces.
C37_CurrentSnapshotTsNeverDecreases ==
    [][\A c \in DOMAIN snapContainers :
        (snapContainers[c].snap # NoSnap /\ snapContainers'[c].snap # NoSnap) =>
            EqualOrGreater(snapContainers'[c].snap.ts, snapContainers[c].snap.ts)]_vars


\* ------------------------------------------------ lock order of the manager
\* merges of any pair of instance ids, equal ids included, between flushes,
\* instance map updates and snapshot requests
InitLocks ==
    \E pm \in MergePartnMaps :
        NewStorageManager(pm, [s \in SliceIds |-> NoSlice], MaxLockCmds)

NextLocks ==
    \/ \E m \in FlushInstMapUpdates : handleUpdateIndexInstMap(m, TRUE)
    \/ handleCreateSnapshot([v \in Vbs |-> 1], "INMEM_SNAP", FALSE, FALSE,
                            1..MaxSpecWorkers)
    \/ \E w \in Workers : createSnapshotWorker_done(w)
    \/ \E w \in Workers : createSnapshotForIndex_clone(w)
    \/ \E w \in Workers : createSnapshotForIndex_build(w, {})
    \/ \E w \in Workers : createSnapshotForIndex_deferred(w)
    \/ \E t \in Threads : updateSnapMapAndNotify_getSnapC(t)
    \/ \E t \in Threads : updateSnapMapAndNotify_install(t)
    \/ \E t \in Threads : notifySnapshotCreation(t)
    \/ \E t \in Threads : updateSnapMapAndNotify_getWc(t)
    \/ \E t \in Threads : updateSnapMapAndNotify_walk(t)
    \/ \E i \in Insts : handleGetIndexSnapshot(i, ZeroTs, "any")
    \/ listenSnapshotReqs_recv
    \/ listenSnapshotReqs_check
    \/ \E s, t \in Insts : \E P \in SUBSET Partns : handleIndexMergeSnapshot(s, t, P)
    \/ handleIndexMergeSnapshot_done

SpecLocks == InitLocks /\ [][NextLocks]_vars

\* the locks a thread holds while it waits: the maps mutex, and the lock of
\* the source container of a merge
HeldLocks(t) ==
    (IF muSnap = t THEN {<<"muSnap", 0>>} ELSE {})
    \cup (IF t = MainT /\ thr[t].pc = "targetC.Lock"
          THEN {<<"snapC", thr[t].locked>>} ELSE {})

\* the lock a thread is waiting to acquire: the target container of a merge,
\* the container a worker or the listener is about to lock, the maps mutex
\* of a thread that has to create a container
WantedLocks(t) ==
    (IF t = MainT /\ thr[t].pc = "targetC.Lock"
     THEN {<<"snapC", thr[t].waits>>} ELSE {})
    \cup (IF thr[t].pc \in {"install", "lsnCheck"}
          THEN {<<"snapC", thr[t].snapC>>} ELSE {})
    \cup (IF thr[t].pc = "getSnapC" /\ indexSnapMap[thr[t].is.instId] = 0
          THEN {<<"muSnap", 0>>} ELSE {})

\* C38: the locks are acquired in a consistent order: there is no set of
\* tasks each of which waits for a lock held by a task of the set (a task
\* waiting for a lock it holds itself included)
C38_NoCycleOfLockWaits ==
    ~\E S \in SUBSET Threads \ {{}} :
        \A t \in S : \E u \in S : WantedLocks(t) \cap HeldLocks(u) # {}


\* ------------------------------------- rollback over sparse partition maps
\* the process restarts with instances that have all the partitions or none,
\* and some instance that has them; a slice has at most one committed
\* snapshot and no OSO snapshot
SparsePartnMaps == {pm \in [Insts -> {{}, Partns}] : \E i \in Insts : pm[i] # {}}

SparseSliceStates ==
    {st \in SliceStates : Len(st.infos) <= 1 /\ \A k \in DOMAIN st.infos : ~st.infos[k].oso}

InitSparseRollback ==
    \E pm \in SparsePartnMaps, disk \in [Insts -> SparseSliceStates] :
        NewStorageManager(pm, [s \in SliceIds |-> disk[s[1]]], MaxRbCmds)

SpecSparseRollback == InitSparseRollback /\ [][NextRollback]_vars

\* C39: a rollback takes the rollbackAllToZero branch only if some slice of a
\* matching instance has no eligible snapshot; an instance without partitions
\* does not do it, wherever the range over the partition map visits it
C39_ZeroOnlyIfSomeSliceIneligible ==
    hist.rb.toZero => hist.rb.ineligible


\* ---------------------------------------- repeated rollbacks to a zero seqno
\* the instances are created once and the keyspace is then rolled back again
\* and again with a rollbackTs that has a zero seqno; no flush in between
RepeatCmds == MaxInfos + 3

ZeroSeqnoTs == {ts \in RollbackTsSet : HasZeroSeqNum(ts)}

\* slices with one to MaxInfos committed snapshots, none of them OSO, that
\* no rollback has marked
UnmarkedSliceStates ==
    {st \in SliceStates :
        /\ st.infos # <<>>
        /\ st.lastRollbackTs = NoTs
        /\ \A k \in DOMAIN st.infos : ~st.infos[k].oso}

InitRepeat ==
    \E disk \in [Insts -> UnmarkedSliceStates] :
        NewStorageManager([i \in Insts |-> Partns],
                          [s \in SliceIds |-> disk[s[1]]], RepeatCmds)

AllActive == \A i \in Insts : indexInstMap[i] = "ACTIVE"

NextRepeat ==
    \/ /\ \A i \in Insts : indexInstMap[i] = "NONE"
       /\ handleUpdateIndexInstMap([i \in Insts |-> "ACTIVE"], TRUE)
    \/ /\ AllActive
       /\ \E ts \in ZeroSeqnoTs, o \in Orders, z \in Orders : handleRollback(ts, {}, o, z)
    \/ handleRollback_drain
    \/ updateIndexSnapMapForIndex_destroy
    \/ updateIndexSnapMapForIndex_open
    \/ handleRollback_done(0)

SpecRepeat == InitRepeat /\ [][NextRepeat]_vars

\* the rollbacks handled since the instances were created
RollbacksDone == IF AllActive THEN RepeatCmds - 1 - budget ELSE 0

\* a step that is the slice work of one more rollback
RepeatStep == AllActive /\ budget' = budget - 1

\* the rollbacks with a zero seqno a slice still takes before it is at zero
Remaining(sl) ==
    IF sl.infos = <<>> THEN 0
    ELSE IF sl.lastRollbackTs = NoTs THEN Len(sl.infos) + 1
    ELSE Len(sl.infos)

\* every rollback leaves a slice at zero or at a snapshot strictly older than
\* the one the rollback before it chose, one rollback nearer to zero
StrictlyOlderEachTime ==
    RepeatStep =>
        \A s \in SliceIds :
            /\ slices'[s].infos # <<>> =>
                /\ slices'[s].lastRollbackTs = slices'[s].infos[1].ts
                /\ slices[s].lastRollbackTs # NoTs =>
                        GreaterThan(slices[s].lastRollbackTs, slices'[s].lastRollbackTs)
            /\ Remaining(slices[s]) > 0 => Remaining(slices'[s]) < Remaining(slices[s])

AllAtZero == \A s \in SliceIds : slices[s].infos = <<>>

====
